---------------------------- MODULE Spec2Model ----------------------------
(***************************************************************************)
(* Model of the VMManager auto-balancer (vm_balancer.py): the VMBalancer   *)
(* control loop (run_balance_cycle / balance_cluster), its node and VM     *)
(* selection helpers, the migrate_vm call of VMManagerAPI and the QEMU     *)
(* version comparison.                                                      *)
(*                                                                         *)
(* Numbers.  Ratios and percentages are Python floats in the source.  They *)
(* are modelled as exact fractions <<numerator, denominator>>.  The        *)
(* inventory uses cpu_total in {0,1,2} and memory_total_mb in {0,1024}, so *)
(* every division by a total is a division by a power of two and the float *)
(* results are exact: the fraction model and the float computation agree.  *)
(*                                                                         *)
(* Time.  datetime.now() is modelled by the integer clock `now`, counted   *)
(* in ticks of 30 minutes.  The clock advances during the sleep between    *)
(* two cycles; the steps of one cycle read the same clock value.           *)
(*                                                                         *)
(* Strings.  A QEMU version string is a sequence of one-character strings, *)
(* so that parsing is computed and not assumed.                            *)
(***************************************************************************)
EXTENDS Integers, Sequences, FiniteSets, TLC

(***************************************************************************)
(* Bounds of the model.                                                    *)
(***************************************************************************)
\* number of balance cycles one behaviour runs
MaxCycles == 2
\* max_migrations_per_cycle is drawn from 0..MaxCap
MaxCap == 2
\* number of worker threads that the interactive front end starts
MaxWorkers == 2
\* number of polls after which a migration job has reached its timeout
MaxPolls == 3

(***************************************************************************)
(* Program constants.                                                      *)
(***************************************************************************)
\* VMBalancer.__init__ defaults
cpu_overload_threshold == 7
memory_overload_threshold == 70
cpu_target_threshold == 6
memory_target_threshold == 80
\* timedelta(hours=1) in select_vm_for_migration = two ticks
HistoryRetention == 2
\* datetime.min, the default of migration_history.get: earlier than any time
DatetimeMin == -1000

(***************************************************************************)
(* Fractions.                                                              *)
(***************************************************************************)
Frac(n, d) == <<n, d>>
FracLT(a, b) == a[1] * b[2] < b[1] * a[2]
FracGT(a, b) == FracLT(b, a)
FracEQ(a, b) == a[1] * b[2] = b[1] * a[2]
FracMax(a, b) == IF FracLT(a, b) THEN b ELSE a

(***************************************************************************)
(* Stable sorting, as list.sort(key=..., reverse=...) does.  A key is a    *)
(* tuple of fractions compared lexicographically (a float key is a tuple   *)
(* of length one).  The sort works on pairs <<key, item>>: each element is *)
(* inserted after the elements already placed that do not come after it,   *)
(* so elements with equal keys keep their input order, also when reversed. *)
(***************************************************************************)
RECURSIVE KeyLT(_, _)
KeyLT(a, b) ==
    IF a = <<>> \/ b = <<>> THEN a = <<>> /\ b # <<>>
    ELSE IF FracEQ(Head(a), Head(b)) THEN KeyLT(Tail(a), Tail(b))
    ELSE FracLT(Head(a), Head(b))

ComesBefore(x, y, reverse) ==
    IF reverse THEN KeyLT(y[1], x[1]) ELSE KeyLT(x[1], y[1])

RECURSIVE InsertStable(_, _, _, _)
InsertStable(s, x, i, reverse) ==
    IF i > Len(s) THEN Append(s, x)
    ELSE IF ComesBefore(x, s[i], reverse)
         THEN SubSeq(s, 1, i - 1) \o <<x>> \o SubSeq(s, i, Len(s))
         ELSE InsertStable(s, x, i + 1, reverse)

RECURSIVE SortPairs(_, _, _, _)
SortPairs(s, acc, i, reverse) ==
    IF i > Len(s) THEN acc
    ELSE SortPairs(s, InsertStable(acc, s[i], 1, reverse), i + 1, reverse)

\* faulty variant: elements with equal keys come out in reverse input order
SortStable_reversing_ties(items, keys, reverse) ==
    LET n == Len(items)
        pairs == [i \in 1..n |-> <<keys[n + 1 - i], items[n + 1 - i]>>]
        sorted == SortPairs(pairs, <<>>, 1, reverse)
    IN  [i \in 1..n |-> sorted[i][2]]

\* items sorted by keys (keys[i] is the key of items[i])
SortStable(items, keys, reverse) ==
    CHOOSE result \in
        {[i \in 1..Len(sorted) |-> sorted[i][2]] :
            sorted \in {SortPairs(pairs, <<>>, 1, reverse) :
                           pairs \in {[i \in 1..Len(items) |-> <<keys[i], items[i]>>]}}} : TRUE

SeqRange(s) == {s[i] : i \in 1..Len(s)}

(***************************************************************************)
(* NodeInfo properties.                                                    *)
(***************************************************************************)
cpu_allocation_ratio(n) ==
    IF n.cpu_total > 0 THEN Frac(n.cpu_used, n.cpu_total) ELSE Frac(0, 1)

\* faulty variant: the memory use as a fraction of 1, not in percent
memory_usage_fraction(n) ==
    IF n.memory_total_mb > 0 THEN Frac(n.memory_used_mb, n.memory_total_mb)
    ELSE Frac(0, 1)

memory_usage_percent(n) ==
    IF n.memory_total_mb > 0 THEN Frac(n.memory_used_mb * 100, n.memory_total_mb)
    ELSE Frac(0, 1)

\* faulty variant: the maintenance flag is not looked at
can_accept_vms_ignoring_maintenance(n) ==
    LET vm_limit_ok == n.vm_limit <= 0 \/ n.vm_count < n.vm_limit
    IN  n.vm_creation_allowed /\ vm_limit_ok

can_accept_vms(n) ==
    LET vm_limit_ok == n.vm_limit <= 0 \/ n.vm_count < n.vm_limit
    IN  ~n.is_maintenance /\ n.vm_creation_allowed /\ vm_limit_ok

(***************************************************************************)
(* VMManagerAPI.compare_qemu_versions.                                     *)
(***************************************************************************)
Digits == {"0", "1", "2", "3", "4", "5", "6", "7", "8", "9"}

DigitVal(c) ==
    CASE c = "0" -> 0 [] c = "1" -> 1 [] c = "2" -> 2 [] c = "3" -> 3
      [] c = "4" -> 4 [] c = "5" -> 5 [] c = "6" -> 6 [] c = "7" -> 7
      [] c = "8" -> 8 [] c = "9" -> 9

\* version_str.strip(): leading and trailing blanks removed
RECURSIVE StripLeft(_)
StripLeft(s) == IF s # <<>> /\ Head(s) = " " THEN StripLeft(Tail(s)) ELSE s

RECURSIVE StripRight(_)
StripRight(s) ==
    IF s # <<>> /\ s[Len(s)] = " " THEN StripRight(SubSeq(s, 1, Len(s) - 1)) ELSE s

Strip(s) == StripRight(StripLeft(s))

\* the length of the longest prefix of s matching \d+(?:\.\d+)* ; 0 if none.
\* The regex is greedy: after a run of digits it takes ".digits" as long as
\* a dot is followed by at least one digit.
RECURSIVE DigitRun(_, _)
DigitRun(s, i) == IF i <= Len(s) /\ s[i] \in Digits THEN DigitRun(s, i + 1) ELSE i

RECURSIVE NumericEnd(_, _)
NumericEnd(s, i) ==
    \* i is the index after a run of digits
    IF i + 1 <= Len(s) /\ s[i] = "." /\ s[i + 1] \in Digits
    THEN NumericEnd(s, DigitRun(s, i + 1))
    ELSE i

NumericPartLen(s) ==
    LET e == DigitRun(s, 1) IN IF e = 1 THEN 0 ELSE NumericEnd(s, e) - 1

\* tuple(map(int, numeric_part.split('.')))
RECURSIVE SplitInts(_, _, _)
SplitInts(s, i, cur) ==
    IF i > Len(s) THEN <<cur>>
    ELSE IF s[i] = "." THEN <<cur>> \o SplitInts(s, i + 1, 0)
    ELSE SplitInts(s, i + 1, cur * 10 + DigitVal(s[i]))

parse_version(version_str) ==
    LET t == Strip(version_str)
        k == NumericPartLen(t)
    IN  IF k > 0 THEN SplitInts(SubSeq(t, 1, k), 1, 0) ELSE <<0>>

\* Python's tuple comparison a >= b: lexicographic, a proper prefix is smaller
RECURSIVE TupleGE(_, _)
TupleGE(a, b) ==
    IF b = <<>> THEN TRUE
    ELSE IF a = <<>> THEN FALSE
    ELSE IF Head(a) # Head(b) THEN Head(a) > Head(b)
    ELSE TupleGE(Tail(a), Tail(b))

compare_qemu_versions(source_version, target_version) ==
    IF source_version = <<>> \/ target_version = <<>> THEN TRUE
    ELSE TupleGE(parse_version(target_version), parse_version(source_version))

(***************************************************************************)
(* ResourceEstimator._check_qemu_compatibility (core/resource_estimator).  *)
(***************************************************************************)
\* version_str.split('.'): the pieces between the dots, empty ones included
RECURSIVE SplitDots(_, _, _)
SplitDots(s, i, cur) ==
    IF i > Len(s) THEN <<cur>>
    ELSE IF s[i] = "." THEN <<cur>> \o SplitDots(s, i + 1, <<>>)
    ELSE SplitDots(s, i + 1, Append(cur, s[i]))

\* int(part): <<value>> for an optional sign followed by digits, blanks
\* around them ignored; <<>> when int raises ValueError
IntOf(part) ==
    LET t == Strip(part)
        signed == t # <<>> /\ Head(t) \in {"-", "+"}
        body == IF signed THEN Tail(t) ELSE t
    IN  IF body # <<>> /\ \A k \in 1..Len(body) : body[k] \in Digits
        THEN <<(IF Head(t) = "-" THEN -1 ELSE 1) * SplitInts(body, 1, 0)[1]>>
        ELSE <<>>

\* _parse_qemu_version: the first three pieces as integers, (0, 0, 0) when
\* one of them is not an integer
parse_qemu_version(version_str) ==
    LET version_parts == SplitDots(version_str, 1, <<>>)
        first == SubSeq(version_parts, 1, IF Len(version_parts) < 3 THEN Len(version_parts) ELSE 3)
        ints == [k \in 1..Len(first) |-> IntOf(first[k])]
    IN  IF \E k \in 1..Len(first) : ints[k] = <<>> THEN <<0, 0, 0>>
        ELSE [k \in 1..Len(first) |-> ints[k][1]]

\* source_node is Optional: <<>> or <<version of the source node>>
check_qemu_compatibility(target_version, source_node) ==
    IF source_node = <<>> THEN TRUE
    ELSE IF target_version = <<>> \/ source_node[1] = <<>> THEN TRUE
    ELSE TupleGE(parse_qemu_version(target_version), parse_qemu_version(source_node[1]))

(***************************************************************************)
(* Floating point.  A Python float is an IEEE-754 binary64 number; the     *)
(* numbers met here are zero or positive and far from the ends of the      *)
(* exponent range, so a float is a record [m, e] that stands for m * 2^e,  *)
(* m being a sequence of 53 binary digits, most significant first and      *)
(* equal to 1, or the empty sequence for 0.0.  Every operation computes    *)
(* the exact result and rounds it to the nearest float, ties to even.      *)
(* TLC evaluates the argument of an operator anew at each use, so an       *)
(* operator first binds its arguments as the elements of singleton sets.   *)
(***************************************************************************)
Precision == 53

Zeros(n) == [i \in 1..n |-> 0]

\* the binary digits of a natural number, most significant first
RECURSIVE IntBits(_)
IntBits(n) == IF n = 0 THEN <<>> ELSE Append(IntBits(n \div 2), n % 2)

\* the digits of a + b.  Position i gets a carry when some lower position j
\* generates one (both digits 1) and every position between propagates it
\* (exactly one digit 1).
AddBits(a, b) ==
    LET add(x, y) ==
            LET n == (IF Len(x) > Len(y) THEN Len(x) ELSE Len(y)) + 1
                X(i) == IF i > n - Len(x) THEN x[i - (n - Len(x))] ELSE 0
                Y(i) == IF i > n - Len(y) THEN y[i - (n - Len(y))] ELSE 0
                carry(i) ==
                    IF \E j \in (i + 1)..n :
                          /\ X(j) + Y(j) = 2
                          /\ \A k \in (i + 1)..(j - 1) : X(k) + Y(k) = 1
                    THEN 1 ELSE 0
            IN  [i \in 1..n |-> (X(i) + Y(i) + carry(i)) % 2]
    IN  CHOOSE sum \in {IF s[1] = 0 THEN Tail(s) ELSE s :
                           s \in {add(x, y) : x \in {a}, y \in {b}}} : TRUE

\* a < b for digit sequences without leading zeros
BitsLT(a, b) ==
    \E x \in {a}, y \in {b} :
        \/ Len(x) < Len(y)
        \/ /\ Len(x) = Len(y)
           /\ \E i \in 1..Len(x) : x[i] < y[i] /\ \A j \in 1..(i - 1) : x[j] = y[j]

\* the float nearest to bits * 2^e (plus a non-zero amount below the last
\* digit when sticky), ties to the even significand
Round(bits, e, sticky) ==
    LET round(b, len) ==
            IF len = 0 THEN [m |-> <<>>, e |-> 0]
            ELSE IF len <= Precision
            THEN [m |-> b \o Zeros(Precision - len), e |-> e - (Precision - len)]
            ELSE LET kept == SubSeq(b, 1, Precision)
                     half == b[Precision + 1] = 1
                     below == sticky \/ \E i \in (Precision + 2)..len : b[i] = 1
                     up == half /\ (below \/ b[Precision] = 1)
                 IN  IF up /\ \A i \in 1..Precision : b[i] = 1
                     THEN [m |-> <<1>> \o Zeros(Precision - 1), e |-> e + (len - Precision) + 1]
                     ELSE [m |-> IF up THEN AddBits(kept, <<1>>) ELSE kept,
                           e |-> e + (len - Precision)]
    IN  CHOOSE f \in {round(b, Len(b)) : b \in {bits}} : TRUE

\* long division, eight digits at a time: bits * 2^e is the quotient so
\* far, r the remainder
RECURSIVE DivBits(_, _, _, _)
DivBits(r, d, bits, e) ==
    LET step(rv, bv, ev) ==
            IF rv = 0 \/ Len(bv) >= Precision + 2 THEN Round(bv, ev, rv # 0)
            ELSE LET digits == IntBits((rv * 256) \div d)
                 IN  DivBits((rv * 256) % d, d,
                             IF bv = <<>> THEN digits
                             ELSE bv \o Zeros(8 - Len(digits)) \o digits,
                             ev - 8)
    IN  CHOOSE f \in {step(rv, bv, ev) : rv \in {r}, bv \in {bits}, ev \in {e}} : TRUE

\* n / d for ints n >= 0 and d > 0 (true division, correctly rounded)
FloatDiv(n, d) == DivBits(n % d, d, IntBits(n \div d), 0)

\* x * 100 = x * 64 + x * 32 + x * 4
TimesHundred(x) ==
    LET times(v) ==
            IF v.m = <<>> THEN v
            ELSE Round(AddBits(AddBits(v.m \o Zeros(6), v.m \o Zeros(5)), v.m \o Zeros(2)),
                       v.e, FALSE)
    IN  CHOOSE f \in {times(v) : v \in {x}} : TRUE

\* x + y
FloatAdd(x, y) ==
    LET plus(v, w) ==
            IF v.m = <<>> THEN w
            ELSE IF w.m = <<>> THEN v
            ELSE LET e == IF v.e < w.e THEN v.e ELSE w.e
                 IN  Round(AddBits(v.m \o Zeros(v.e - e), w.m \o Zeros(w.e - e)), e, FALSE)
    IN  CHOOSE f \in {plus(v, w) : v \in {x}, w \in {y}} : TRUE

\* x < t for a float x and a whole threshold t > 0
FloatLT(x, t) ==
    \E v \in {x} :
        \/ v.m = <<>>
        \/ /\ v.m # <<>>
           /\ BitsLT(v.m \o Zeros(IF v.e > 0 THEN v.e ELSE 0),
                     IntBits(t) \o Zeros(IF v.e < 0 THEN -v.e ELSE 0))

(***************************************************************************)
(* The estimates of can_node_accept_vm, in floating point as computed      *)
(* (the same two expressions in VMBalancer.can_node_accept_vm and in       *)
(* ResourceEstimator.estimate_post_migration_resources).                   *)
(***************************************************************************)
estimate_post_migration_resources(node, vm) ==
    [\* (node.cpu_used + vm.cpu_cores) / node.cpu_total
     cpu_ratio |-> FloatDiv(node.cpu_used + vm.cpu_cores, node.cpu_total),
     \* node.memory_usage_percent + (vm.memory_mb / node.memory_total_mb * 100),
     \* memory_usage_percent being memory_used_mb / memory_total_mb * 100
     memory_percent |->
         FloatAdd(TimesHundred(FloatDiv(node.memory_used_mb, node.memory_total_mb)),
                  TimesHundred(FloatDiv(vm.memory_mb, node.memory_total_mb)))]

(***************************************************************************)
(* VMBalancer helpers.  `nodes` is cluster.nodes, a sequence of NodeInfo   *)
(* records; the lists of overloaded and underloaded nodes hold references  *)
(* to the same objects, modelled as indices into `nodes`.  Optional        *)
(* results are sequences of length 0 (None) or 1.                          *)
(***************************************************************************)
RECURSIVE SelectIdx(_, _, _)
\* the indices i..Len(flags) whose flag is TRUE, in order
SelectIdx(flags, i, acc) ==
    IF i > Len(flags) THEN acc
    \* (the flags and the indices so far are values bound once)
    ELSE CHOOSE result \in
             {SelectIdx(f, i + 1, a) :
                 f \in {flags}, a \in {IF flags[i] THEN Append(acc, i) ELSE acc}} : TRUE

\* faulty variant: a node exactly at a threshold counts as overloaded
is_overloaded_source_at_threshold(node, excl_src) ==
    /\ ~(node.name \in excl_src \/ node.id \in excl_src)
    /\ ~node.is_maintenance
    /\ \/ ~FracLT(cpu_allocation_ratio(node), Frac(cpu_overload_threshold, 1))
       \/ ~FracLT(memory_usage_percent(node), Frac(memory_overload_threshold, 1))

is_overloaded_source(node, excl_src) ==
    /\ ~(node.name \in excl_src \/ node.id \in excl_src)
    /\ ~node.is_maintenance
    /\ \/ FracGT(cpu_allocation_ratio(node), Frac(cpu_overload_threshold, 1))
       \/ FracGT(memory_usage_percent(node), Frac(memory_overload_threshold, 1))

\* faulty variant: the least loaded source comes first
find_overloaded_nodes_ascending(nodes, excl_src) ==
    LET overloaded ==
            SelectIdx([i \in 1..Len(nodes) |-> is_overloaded_source(nodes[i], excl_src)],
                      1, <<>>)
        keys == [k \in 1..Len(overloaded) |->
                    <<FracMax(cpu_allocation_ratio(nodes[overloaded[k]]),
                              memory_usage_percent(nodes[overloaded[k]]))>>]
    IN  SortStable(overloaded, keys, FALSE)

find_overloaded_nodes(nodes, excl_src) ==
    LET overloaded ==
            SelectIdx([i \in 1..Len(nodes) |-> is_overloaded_source(nodes[i], excl_src)],
                      1, <<>>)
        keys == [k \in 1..Len(overloaded) |->
                    <<FracMax(cpu_allocation_ratio(nodes[overloaded[k]]),
                              memory_usage_percent(nodes[overloaded[k]]))>>]
    IN  SortStable(overloaded, keys, TRUE)

\* faulty variant: the exclusion list is matched against the name only
is_underloaded_target_by_name(node, excl_tgt) ==
    LET cpu_has_capacity ==
            FracLT(cpu_allocation_ratio(node), Frac(cpu_target_threshold, 1))
        memory_has_capacity ==
            FracLT(memory_usage_percent(node), Frac(memory_target_threshold, 1))
    IN  /\ ~(node.name \in excl_tgt)
        /\ can_accept_vms(node) /\ cpu_has_capacity /\ memory_has_capacity

is_underloaded_target(node, excl_tgt) ==
    LET cpu_has_capacity ==
            FracLT(cpu_allocation_ratio(node), Frac(cpu_target_threshold, 1))
        memory_has_capacity ==
            FracLT(memory_usage_percent(node), Frac(memory_target_threshold, 1))
    IN  /\ ~(node.name \in excl_tgt \/ node.id \in excl_tgt)
        /\ can_accept_vms(node) /\ cpu_has_capacity /\ memory_has_capacity

find_underloaded_nodes(nodes, excl_tgt) ==
    LET underloaded ==
            SelectIdx([i \in 1..Len(nodes) |-> is_underloaded_target(nodes[i], excl_tgt)],
                      1, <<>>)
        keys == [k \in 1..Len(underloaded) |->
                    <<cpu_allocation_ratio(nodes[underloaded[k]]),
                      memory_usage_percent(nodes[underloaded[k]])>>]
    IN  SortStable(underloaded, keys, FALSE)

\* dict.get(key, default)
DictGet(d, key, default) == IF key \in DOMAIN d THEN d[key] ELSE default

\* dict[key] = value
DictSet(d, key, value) ==
    [k \in DOMAIN d \cup {key} |-> IF k = key THEN value ELSE d[k]]

Pick(s, idx) ==
    CHOOSE result \in {[k \in 1..Len(i) |-> t[i[k]]] : t \in {s}, i \in {idx}} : TRUE

\* faulty variant: the migration history is not consulted
recent_candidates_unfiltered(candidates, history, t) == candidates

\* the candidates whose last successful migration is older than one hour
recent_candidates(candidates, history, t) ==
    LET recent_cutoff == t - HistoryRetention
    IN  Pick(candidates,
             SelectIdx([i \in 1..Len(candidates) |->
                           DictGet(history, candidates[i].id, DatetimeMin) < recent_cutoff],
                       1, <<>>))

select_vm_for_migration(vms, source_node, history, t) ==
    LET smallest(recent) ==
            LET \* key: vm.cpu_cores + vm.memory_mb / 1024
                keys == [i \in 1..Len(recent) |->
                            <<Frac(recent[i].cpu_cores * 1024 + recent[i].memory_mb, 1024)>>]
                sorted == SortStable(recent, keys, FALSE)
            IN  IF recent = <<>> THEN <<>> ELSE <<sorted[1]>>
        among(candidates) ==
            IF candidates = <<>> THEN <<>>
            ELSE CHOOSE vm \in {smallest(recent) :
                                   recent \in {recent_candidates(candidates, history, t)}} : TRUE
        on_node(all_vms_on_node) ==
            CHOOSE vm \in
                {among(candidates) :
                    candidates \in
                        {Pick(all_vms_on_node,
                              SelectIdx([i \in 1..Len(all_vms_on_node) |->
                                            all_vms_on_node[i].can_migrate], 1, <<>>))}} : TRUE
    IN  CHOOSE vm \in
            {on_node(all_vms_on_node) :
                all_vms_on_node \in
                    {Pick(vms, SelectIdx([i \in 1..Len(vms) |-> vms[i].node_id = source_node.id],
                                        1, <<>>))}} : TRUE

\* get_source_node_for_vm: the first node of _current_cluster_nodes with the VM's node_id
RECURSIVE get_source_node_for_vm(_, _, _)
get_source_node_for_vm(vm, nodes, i) ==
    IF i > Len(nodes) THEN <<>>
    ELSE IF nodes[i].id = vm.node_id THEN <<nodes[i]>>
    ELSE get_source_node_for_vm(vm, nodes, i + 1)

\* the divisions of can_node_accept_vm raise ZeroDivisionError on a node
\* without cores or without memory
can_node_accept_vm_raises(node) == node.cpu_total = 0 \/ node.memory_total_mb = 0

\* faulty variant: the QEMU versions are not compared
qemu_unchecked(node, vm, nodes) == TRUE

qemu_ok(node, vm, nodes) ==
    LET source_node == get_source_node_for_vm(vm, nodes, 1)
    IN  IF source_node # <<>> /\ node.qemu_version # <<>>
           /\ source_node[1].qemu_version # <<>>
        THEN compare_qemu_versions(source_node[1].qemu_version, node.qemu_version)
        ELSE TRUE

\* faulty variant: the node is judged on its current load, against the
\* target thresholds
can_node_accept_vm_as_loaded(node, vm, nodes) ==
    LET cpu_ok == FracLT(Frac(node.cpu_used, node.cpu_total), Frac(cpu_target_threshold, 1))
        memory_ok == FracLT(Frac(node.memory_used_mb * 100, node.memory_total_mb),
                            Frac(memory_target_threshold, 1))
    IN  cpu_ok /\ memory_ok /\ qemu_ok(node, vm, nodes)

\* defined for a node on which the divisions do not raise.  The estimates
\* are fractions here: on the inventories of the cycle (memory totals of
\* 1024 MB) and on NodeLists the floating-point results compare with the
\* thresholds as the fractions do.
can_node_accept_vm(node, vm, nodes) ==
    LET estimated_cpu_ratio == Frac(node.cpu_used + vm.cpu_cores, node.cpu_total)
        \* node.memory_usage_percent + vm.memory_mb / node.memory_total_mb * 100
        estimated_memory ==
            Frac(node.memory_used_mb * 100 + vm.memory_mb * 100, node.memory_total_mb)
        cpu_ok == FracLT(estimated_cpu_ratio, Frac(cpu_overload_threshold, 1))
        memory_ok == FracLT(estimated_memory, Frac(memory_overload_threshold, 1))
    IN  cpu_ok /\ memory_ok /\ qemu_ok(node, vm, nodes)

\* faulty variant: the last accepting node of the list is taken
find_target_node_taking_last(vm, underloaded_nodes, nodes, k) ==
    LET accepting == {a \in k..Len(underloaded_nodes) :
                         can_node_accept_vm(nodes[underloaded_nodes[a]], vm, nodes)}
    IN  IF accepting = {} THEN 0
        ELSE underloaded_nodes[CHOOSE a \in accepting : \A b \in accepting : b <= a]

\* find_target_node: the index of the first accepting node of the list,
\* 0 for None, -1 when can_node_accept_vm raised before any node accepted
RECURSIVE find_target_node(_, _, _, _)
find_target_node(vm, underloaded_nodes, nodes, k) ==
    IF k > Len(underloaded_nodes) THEN 0
    ELSE IF can_node_accept_vm_raises(nodes[underloaded_nodes[k]]) THEN -1
    ELSE IF can_node_accept_vm(nodes[underloaded_nodes[k]], vm, nodes)
         THEN underloaded_nodes[k]
    ELSE find_target_node(vm, underloaded_nodes, nodes, k + 1)

(***************************************************************************)
(* The remote platform (what the REST API answers from).                   *)
(*                                                                         *)
(* Two clusters: "10" with the nodes "1","2","3" (named "a","b","c") and   *)
(* "20" with the nodes "4","5" (named "d","e").  Four VMs: "101" and "102" *)
(* start on node "1", "103" on node "2", "104" on node "4".  A node's      *)
(* cpu.used, ram_mib.allocated and vm.total are a base allocation plus the *)
(* cores, memory and number of the modelled VMs placed on it, so that an   *)
(* executed migration shows in the next inventory.                         *)
(***************************************************************************)
ClusterOrder == <<"10", "20">>
NodeOrder == <<"1", "2", "3", "4", "5">>
VMOrder == <<"101", "102", "103", "104">>
NodeIds == SeqRange(NodeOrder)
VMIds == SeqRange(VMOrder)

V_none == <<>>
V_6_1_0 == <<"6", ".", "1", ".", "0">>
V_7_2_0 == <<"7", ".", "2", ".", "0">>
V_7_2_0_ubuntu == <<"7", ".", "2", ".", "0", "-", "1", "u">>
V_10_0 == <<"1", "0", ".", "0">>

Static(name, cluster, cpu_total, base_cpu, memory_total_mb, base_mem, maint, allowed, limit, qemu) ==
    [name |-> name, cluster |-> cluster, cpu_total |-> cpu_total, base_cpu |-> base_cpu,
     memory_total_mb |-> memory_total_mb, base_mem |-> base_mem, base_count |-> 0,
     is_maintenance |-> maint, vm_creation_allowed |-> allowed, vm_limit |-> limit,
     qemu_version |-> qemu]

VARIABLES
    \* configuration of the run (VMBalancer.__init__)
    dry_run, max_migrations_per_cycle, excluded_source_nodes, excluded_target_nodes,
    cluster_ids,
    \* the remote platform
    node_static, vm_static, vm_node,
    \* the clock (datetime.now())
    now,
    \* VMBalancer.migration_history and MigrationStrategy.migration_blacklist
    migration_history, migration_blacklist,
    \* control: where the worker is, and the number of cycles started
    pc, cycle,
    \* run_balance_cycle: the clusters still to balance, total_migrations
    clusters, total_migrations,
    \* balance_cluster: the cluster being balanced (its nodes are the
    \* NodeInfo objects that the lists below refer to by index), the two
    \* lists, the VM list, the loop position and the counter
    nodes, cluster_id, overloaded_nodes, underloaded_nodes, cluster_vms, src_pos,
    migrations_performed,
    \* the migration in flight: <<vm, target index>>, or <<>>
    in_flight,
    \* history variable: the migrations attempted or simulated by the
    \* current pass of balance_cluster, in order
    attempts,
    \* history variables: per VM, the time its last real migration
    \* succeeded, and the time its last real migration failed
    last_success, last_failure,
    \* history variable: the number of migrate requests posted so far
    migrate_requests,
    \* history variable: what the current cycle met so far (the outcome of the
    \* requests at its start, the clusters whose pass began, the clusters
    \* whose VM list was requested, the clusters whose nodes or VMs could not
    \* be listed or whose pass was left by an exception)
    cycle_trace,
    \* the front end (main() of vm_balancer.py, or InteractiveBalancer):
    \* which one runs, whether a password is configured, the VMManagerAPI
    \* object it holds ("none", "unauthenticated" or "authenticated"),
    \* InteractiveBalancer.is_connected, .balance_running and .balance_thread,
    \* and the threads of the process (0 is the main thread)
    frontend, password, api, is_connected, balance_running, balance_thread, threads,
    \* one call of VMManagerAPI.wait_for_job_completion followed step by step:
    \* where it is, its timeout and the time elapsed since start_time (both in
    \* units of the 5 seconds between two polls), what it returned, and
    \* (history) the answers of the polls and the elapsed time at each
    job,
    \* one call of a function of the program on given arguments: the function,
    \* the arguments, whether it has returned, and what it returned
    calc

config == <<dry_run, max_migrations_per_cycle, excluded_source_nodes,
            excluded_target_nodes, cluster_ids>>
platform == <<node_static, vm_static>>
pass == <<nodes, cluster_id, overloaded_nodes, underloaded_nodes, cluster_vms, src_pos,
          migrations_performed>>
ghost == <<attempts, last_success, last_failure, migrate_requests>>
front == <<frontend, password, api, is_connected, balance_running, balance_thread, threads>>
balancer == <<config, platform, vm_node, now, migration_history, migration_blacklist, pc,
              cycle, clusters, total_migrations, pass, in_flight, ghost, cycle_trace>>
vars == <<balancer, front, job, calc>>

RECURSIVE SumOver(_, _, _)
\* the sum of f[VMOrder[k]] over the VMs k..Len(VMOrder) placed on node id
SumOver(f, id, k) ==
    IF k > Len(VMOrder) THEN 0
    ELSE (IF vm_node[VMOrder[k]] = id THEN f[VMOrder[k]] ELSE 0) + SumOver(f, id, k + 1)

\* one element of the "list" of GET /vm/v3/node, as get_cluster_nodes reads it
node_info(id) ==
    LET st == node_static[id]
    IN  [id |-> id, name |-> st.name, cpu_total |-> st.cpu_total,
         cpu_used |-> st.base_cpu + SumOver([v \in VMIds |-> vm_static[v].cpu_cores], id, 1),
         memory_total_mb |-> st.memory_total_mb,
         memory_used_mb |-> st.base_mem + SumOver([v \in VMIds |-> vm_static[v].memory_mb], id, 1),
         vm_count |-> st.base_count + SumOver([v \in VMIds |-> 1], id, 1),
         is_maintenance |-> st.is_maintenance,
         vm_creation_allowed |-> st.vm_creation_allowed,
         vm_limit |-> st.vm_limit, qemu_version |-> st.qemu_version]

\* get_cluster_nodes: the nodes of the cluster, in the order of the API's list
get_cluster_nodes(cid) ==
    LET idx == SelectIdx([i \in 1..Len(NodeOrder) |-> node_static[NodeOrder[i]].cluster = cid],
                         1, <<>>)
    IN  [k \in 1..Len(idx) |-> node_info(NodeOrder[idx[k]])]

\* get_cluster_vms: the VMs of the cluster, in the order of the API's list
get_cluster_vms(cid) ==
    LET idx == SelectIdx([i \in 1..Len(VMOrder) |-> vm_static[VMOrder[i]].cluster = cid],
                         1, <<>>)
    IN  [k \in 1..Len(idx) |->
            LET v == VMOrder[idx[k]]
            IN  [id |-> v, node_id |-> vm_node[v], cpu_cores |-> vm_static[v].cpu_cores,
                 memory_mb |-> vm_static[v].memory_mb,
                 can_migrate |-> vm_static[v].can_migrate]]

\* faulty variant: the list of cluster ids is not applied
filter_clusters_ignored(cs, ids) == cs

\* filter_clusters
filter_clusters(cs, ids) ==
    IF ids = <<>> THEN cs
    ELSE Pick(cs, SelectIdx([i \in 1..Len(cs) |-> cs[i].id \in SeqRange(ids)], 1, <<>>))

(***************************************************************************)
(* Initial state: the balancer as constructed by main(), before the first  *)
(* cycle, and a platform inventory and a configuration drawn from small    *)
(* sets.  The sets are explored in four slices (the node inventory, the    *)
(* VM attributes, the exclusion lists, the cluster filter with a second    *)
(* cluster that has work to do), each with the others at representative    *)
(* values.                                                                 *)
(***************************************************************************)
\* node "1" hosts "101" and "102": 4 + 2 + 2 = 8 vCPUs on 1 core
Node1Normal == Static("a", "10", 1, 4, 1024, 0, FALSE, TRUE, 0, V_7_2_0)

Node1Options ==
    { Node1Normal,
      Static("a", "10", 1, 4, 1024, 0, TRUE, TRUE, 0, V_7_2_0),
      Static("a", "10", 1, 4, 1024, 0, FALSE, TRUE, 0, V_10_0) }

\* node "2" hosts "103" (4 cores): warm (4 vCPUs), hot (8 vCPUs) or
\* memory-hot (75 %)
Node2Warm == Static("b", "10", 1, 0, 1024, 0, FALSE, TRUE, 0, V_7_2_0)
Node2Hot == Static("b", "10", 1, 4, 1024, 0, FALSE, TRUE, 0, V_7_2_0)

Node2Options ==
    { Node2Warm, Node2Hot,
      Static("b", "10", 1, 0, 1024, 512, FALSE, TRUE, 0, V_none) }

\* node "3" hosts no VM
Node3Idle == Static("c", "10", 1, 0, 1024, 0, FALSE, TRUE, 0, V_7_2_0)
Node3Warm == Static("c", "10", 1, 2, 1024, 256, FALSE, TRUE, 0, V_7_2_0_ubuntu)

Node3NoCpu == Static("c", "10", 0, 0, 1024, 0, FALSE, TRUE, 0, V_none)

Node3Options ==
    { Node3Idle, Node3Warm,
      Static("c", "10", 2, 0, 1024, 0, FALSE, TRUE, 1, V_10_0),
      Static("c", "10", 1, 0, 1024, 0, TRUE, TRUE, 0, V_7_2_0),
      Static("c", "10", 1, 0, 1024, 0, FALSE, FALSE, 0, V_7_2_0),
      Static("c", "10", 1, 0, 1024, 0, FALSE, TRUE, 0, V_6_1_0),
      Node3NoCpu,
      Static("c", "10", 1, 0, 0, 0, FALSE, TRUE, 0, V_none) }

\* node "4" hosts "104": warm (4 vCPUs) or hot (8 vCPUs); node "5" hosts no VM
Node4Warm == Static("d", "20", 1, 2, 1024, 0, FALSE, TRUE, 0, V_none)
Node4Hot == Static("d", "20", 1, 6, 1024, 0, FALSE, TRUE, 0, V_none)
Node5Idle == Static("e", "20", 1, 0, 1024, 0, FALSE, TRUE, 0, V_none)

Inventory(n1, n2, n3, n4) ==
    [id \in NodeIds |->
        CASE id = "1" -> n1 [] id = "2" -> n2 [] id = "3" -> n3
          [] id = "4" -> n4 [] id = "5" -> Node5Idle]

VMStatic(cluster, cpu_cores, memory_mb, can_migrate) ==
    [cluster |-> cluster, cpu_cores |-> cpu_cores, memory_mb |-> memory_mb,
     can_migrate |-> can_migrate]

\* can_migrate of "101" and memory_mb of "102" vary
VMInventory(m1, mem2) ==
    [v \in VMIds |->
        CASE v = "101" -> VMStatic("10", 2, 256, m1)
          [] v = "102" -> VMStatic("10", 2, mem2, TRUE)
          [] v = "103" -> VMStatic("10", 4, 256, TRUE)
          [] v = "104" -> VMStatic("20", 2, 256, TRUE)]

\* the exclusion lists of a run: <<excluded_source_nodes, excluded_target_nodes>>
ExclusionOptions ==
    { <<{}, {}>>, <<{"a"}, {}>>, <<{"2"}, {}>>, <<{}, {"c"}>>, <<{}, {"3"}>> }

ClusterIdOptions == { <<>>, <<"10">>, <<"99">> }

InitInventory ==
    /\ excluded_source_nodes = {} /\ excluded_target_nodes = {}
    /\ cluster_ids = <<>>
    /\ \E n1 \in Node1Options, n2 \in Node2Options, n3 \in Node3Options :
          node_static = Inventory(n1, n2, n3, Node4Warm)
    /\ vm_static = VMInventory(TRUE, 256)

InitVMs ==
    /\ excluded_source_nodes = {} /\ excluded_target_nodes = {}
    /\ cluster_ids = <<>>
    /\ \E n2 \in {Node2Warm, Node2Hot}, n3 \in {Node3Idle, Node3Warm} :
          node_static = Inventory(Node1Normal, n2, n3, Node4Warm)
    /\ \E m1 \in BOOLEAN, mem2 \in {0, 256} : vm_static = VMInventory(m1, mem2)

InitExclusions ==
    /\ \E e \in ExclusionOptions :
          excluded_source_nodes = e[1] /\ excluded_target_nodes = e[2]
    /\ cluster_ids = <<>>
    /\ \E n2 \in {Node2Warm, Node2Hot}, n3 \in {Node3Idle, Node3Warm} :
          node_static = Inventory(Node1Normal, n2, n3, Node4Warm)
    /\ vm_static = VMInventory(TRUE, 256)

InitClusters ==
    /\ excluded_source_nodes = {} /\ excluded_target_nodes = {}
    /\ cluster_ids \in ClusterIdOptions
    /\ \E n2 \in {Node2Warm, Node2Hot}, n3 \in {Node3Idle, Node3NoCpu} :
          node_static = Inventory(Node1Normal, n2, n3, Node4Hot)
    /\ vm_static = VMInventory(TRUE, 256)

EmptyDict == <<>>

\* no cycle is running
NoTrace == [fetch |-> "none", begun |-> {}, listed |-> {}, failed |-> {}]

NoPass ==
    /\ nodes = <<>> /\ cluster_id = "" /\ overloaded_nodes = <<>>
    /\ underloaded_nodes = <<>> /\ cluster_vms = <<>> /\ src_pos = 0
    /\ migrations_performed = 0 /\ attempts = <<>>

NoPassNext ==
    /\ nodes' = <<>> /\ cluster_id' = "" /\ overloaded_nodes' = <<>>
    /\ underloaded_nodes' = <<>> /\ cluster_vms' = <<>> /\ src_pos' = 0
    /\ migrations_performed' = 0 /\ attempts' = <<>>

\* a thread: where it is, the API object its VMBalancer was built with, and
\* (history) whether the operator has asked it to stop and the polls and
\* submissions it made since
ThreadAt(at, api_object) ==
    [pc |-> at, api |-> api_object, stopping |-> FALSE, polls_after_stop |-> 0,
     submits_after_stop |-> 0]

\* no call of wait_for_job_completion is followed
NoJob ==
    [pc |-> "none", timeout |-> 0, elapsed |-> 0, result |-> FALSE, observed |-> <<>>,
     issued |-> <<>>]

\* no single call is followed
NoCalc == [op |-> "none"]

\* the call of function op on the arguments input
Call(op, input) == [op |-> op, input |-> input, done |-> FALSE, output |-> <<>>]

\* main() has authenticated and runs the cycles of its balancer
FrontEndRunning ==
    /\ frontend = "cli" /\ password = TRUE /\ api = "authenticated"
    /\ is_connected = FALSE /\ balance_running = FALSE /\ balance_thread = 0
    /\ threads = <<>>

\* the balancer as constructed, before its first cycle
BalancerAtStart ==
    /\ vm_node = [v \in VMIds |->
                     CASE v = "101" -> "1" [] v = "102" -> "1"
                       [] v = "103" -> "2" [] v = "104" -> "4"]
    /\ now = 0
    /\ migration_history = EmptyDict
    /\ migration_blacklist = EmptyDict
    /\ pc = "start"
    /\ cycle = 0
    /\ clusters = <<>>
    /\ total_migrations = 0
    /\ NoPass
    /\ in_flight = <<>>
    /\ last_success = EmptyDict
    /\ last_failure = EmptyDict
    /\ migrate_requests = 0
    /\ cycle_trace = NoTrace

InitBalancer ==
    /\ dry_run \in BOOLEAN
    /\ max_migrations_per_cycle \in 0..MaxCap
    /\ InitInventory \/ InitVMs \/ InitExclusions \/ InitClusters
    /\ BalancerAtStart

Init == InitBalancer /\ FrontEndRunning /\ job = NoJob /\ calc = NoCalc

(***************************************************************************)
(* run_balance_cycle.                                                      *)
(***************************************************************************)
\* what the requests at the start of a cycle meet: every request answered,
\* check_manager_state failing, get_clusters failing, or get_cluster_nodes
\* failing for the first or the second cluster (it then returns [])
FetchOutcomes == {"ok", "unreachable", "no_clusters", "no_nodes_1", "no_nodes_2"}

\* faulty variant: the answer of check_manager_state is not looked at
cycle_returns_early_unpinged(fetch, all_clusters, filtered) ==
    all_clusters = <<>> \/ filtered = <<>>

\* the three early returns of run_balance_cycle
cycle_returns_early(fetch, all_clusters, filtered) ==
    fetch = "unreachable" \/ all_clusters = <<>> \/ filtered = <<>>

\* run_balance_cycle up to its loop over the clusters: check_manager_state,
\* get_clusters (which fetches the nodes of every cluster) and filter_clusters
StartCycle(fetch) ==
    /\ pc = "start"
    /\ cycle < MaxCycles
    /\ cycle' = cycle + 1
    /\ cycle_trace' =
          [fetch |-> IF fetch \in {"unreachable", "no_clusters"} THEN fetch ELSE "ok",
           begun |-> {},
           listed |-> {},
           failed |-> IF fetch = "no_nodes_1" THEN {ClusterOrder[1]}
                      ELSE IF fetch = "no_nodes_2" THEN {ClusterOrder[2]}
                      ELSE {}]
    /\ LET nodes_ok(k) == ~(fetch = "no_nodes_1" /\ k = 1) /\ ~(fetch = "no_nodes_2" /\ k = 2)
           all_clusters ==
               IF fetch # "no_clusters"
               THEN [k \in 1..Len(ClusterOrder) |->
                        [id |-> ClusterOrder[k],
                         nodes |-> IF nodes_ok(k) THEN get_cluster_nodes(ClusterOrder[k])
                                   ELSE <<>>]]
               ELSE <<>>
           filtered == filter_clusters(all_clusters, cluster_ids)
       IN  IF cycle_returns_early(fetch, all_clusters, filtered)
           THEN /\ pc' = "sleeping"
                /\ UNCHANGED <<clusters, total_migrations>>
           ELSE /\ pc' = "clusters"
                /\ clusters' = filtered
                /\ total_migrations' = 0
    /\ UNCHANGED <<front, job, calc, config, platform, vm_node, now, migration_history,
                   migration_blacklist, pass, in_flight, ghost>>

\* the loop of run_balance_cycle is over: the summary is logged and the
\* function returns (its local total_migrations is gone)
FinishCycle ==
    /\ pc = "clusters"
    /\ clusters = <<>>
    /\ pc' = "sleeping"
    /\ total_migrations' = 0
    /\ cycle_trace' = NoTrace
    /\ UNCHANGED <<front, job, calc, config, platform, vm_node, now, migration_history,
                   migration_blacklist, cycle, clusters, pass, in_flight, ghost>>

\* the time between two cycles: less than, exactly, and more than the hour
\* of select_vm_for_migration
SleepOptions == {HistoryRetention - 1, HistoryRetention, HistoryRetention + 1}

\* main(): time.sleep(args.interval) between two cycles
Sleep(d) ==
    /\ pc = "sleeping"
    /\ cycle < MaxCycles
    /\ now' = now + d
    /\ pc' = "start"
    /\ cycle_trace' = NoTrace
    /\ UNCHANGED <<front, job, calc, config, platform, vm_node, migration_history, migration_blacklist,
                   cycle, clusters, total_migrations, pass, in_flight, ghost>>

(***************************************************************************)
(* balance_cluster.                                                        *)
(***************************************************************************)
\* faulty variant: the VM list is requested before the two lists are tested
BeginCluster_listing_first(vms_ok) ==
    /\ pc = "clusters"
    /\ clusters # <<>>
    /\ LET c == Head(clusters)
           ov == find_overloaded_nodes(c.nodes, excluded_source_nodes)
           un == find_underloaded_nodes(c.nodes, excluded_target_nodes)
       IN  /\ clusters' = Tail(clusters)
           /\ cycle_trace' =
                  [cycle_trace EXCEPT
                      !.begun = @ \cup {c.id},
                      !.listed = @ \cup {c.id},
                      !.failed = @ \cup (IF vms_ok THEN {} ELSE {c.id})]
           /\ IF ov = <<>> \/ un = <<>>
              THEN \* return 0
                   /\ vms_ok
                   /\ UNCHANGED <<pc, pass>>
              ELSE /\ pc' = "sources"
                   /\ nodes' = c.nodes
                   /\ cluster_id' = c.id
                   /\ overloaded_nodes' = ov
                   /\ underloaded_nodes' = un
                   /\ cluster_vms' = IF vms_ok THEN get_cluster_vms(c.id) ELSE <<>>
                   /\ src_pos' = 1
                   /\ migrations_performed' = 0
    /\ UNCHANGED <<front, job, calc, config, platform, vm_node, now, migration_history,
                   migration_blacklist, cycle, total_migrations, in_flight, ghost>>

\* balance_cluster up to its loop over the overloaded nodes.  vms_ok: whether
\* get_cluster_vms got its list (it returns [] on any error).
BeginCluster(vms_ok) ==
    /\ pc = "clusters"
    /\ clusters # <<>>
    /\ LET c == Head(clusters)
           ov == find_overloaded_nodes(c.nodes, excluded_source_nodes)
           un == find_underloaded_nodes(c.nodes, excluded_target_nodes)
       IN  /\ clusters' = Tail(clusters)
           /\ cycle_trace' =
                  [cycle_trace EXCEPT
                      !.begun = @ \cup {c.id},
                      !.listed = @ \cup (IF ov = <<>> \/ un = <<>> THEN {} ELSE {c.id}),
                      !.failed = @ \cup (IF vms_ok THEN {} ELSE {c.id})]
           /\ IF ov = <<>> \/ un = <<>>
              THEN \* return 0
                   /\ vms_ok
                   /\ UNCHANGED <<pc, pass>>
              ELSE /\ pc' = "sources"
                   /\ nodes' = c.nodes
                   /\ cluster_id' = c.id
                   /\ overloaded_nodes' = ov
                   /\ underloaded_nodes' = un
                   /\ cluster_vms' = IF vms_ok THEN get_cluster_vms(c.id) ELSE <<>>
                   /\ src_pos' = 1
                   /\ migrations_performed' = 0
    /\ UNCHANGED <<front, job, calc, config, platform, vm_node, now, migration_history,
                   migration_blacklist, cycle, total_migrations, in_flight, ghost>>

\* faulty variant: the loop stops one migration late
cap_reached_late(performed, cap) == performed > cap

\* the test at the head of the loop body
cap_reached(performed, cap) == performed >= cap

\* the for loop has no further source to visit, or breaks
LoopOver ==
    \/ src_pos > Len(overloaded_nodes)
    \/ cap_reached(migrations_performed, max_migrations_per_cycle)

source_node == nodes[overloaded_nodes[src_pos]]

vm_to_migrate == select_vm_for_migration(cluster_vms, source_node, migration_history, now)

target_index == find_target_node(vm_to_migrate[1], underloaded_nodes, nodes, 1)

\* an entry of `attempts`: the VM, the indices of its source and target in
\* `nodes`, the mode ("simulated" or "real"), the outcome and two times
Attempt(vm, src, tgt, mode, outcome) ==
    [vm |-> vm, source |-> src, target |-> tgt, mode |-> mode, outcome |-> outcome,
     selected_at |-> now, finished_at |-> now]

\* the loop ends: balance_cluster returns migrations_performed, which
\* run_balance_cycle adds to total_migrations
EndCluster ==
    /\ pc = "sources"
    /\ LoopOver
    /\ total_migrations' = total_migrations + migrations_performed
    /\ pc' = "clusters"
    /\ NoPassNext
    /\ UNCHANGED <<front, job, calc, cycle_trace, config, platform, vm_node, now, migration_history,
                   migration_blacklist, cycle, clusters, in_flight, last_success,
                   last_failure, migrate_requests>>

\* faulty variant: the loop stays on a source that has no VM to move
NoVMFound_staying ==
    /\ pc = "sources"
    /\ ~LoopOver
    /\ vm_to_migrate = <<>>
    /\ UNCHANGED vars

\* select_vm_for_migration returned None: continue
NoVMFound ==
    /\ pc = "sources"
    /\ ~LoopOver
    /\ vm_to_migrate = <<>>
    /\ src_pos' = src_pos + 1
    /\ UNCHANGED <<front, job, calc, cycle_trace, config, platform, vm_node, now, migration_history,
                   migration_blacklist, pc, cycle, clusters, total_migrations, nodes,
                   cluster_id, overloaded_nodes, underloaded_nodes, cluster_vms,
                   migrations_performed, in_flight, ghost>>

\* faulty variant: a VM without accepting target is sent to the first node
\* of the underloaded list
NoTargetFound_submitting ==
    /\ pc = "sources"
    /\ ~LoopOver
    /\ vm_to_migrate # <<>>
    /\ target_index = 0
    /\ in_flight' = <<vm_to_migrate[1], underloaded_nodes[1]>>
    /\ pc' = "migrating"
    /\ attempts' = Append(attempts, Attempt(vm_to_migrate[1], overloaded_nodes[src_pos],
                                            underloaded_nodes[1], "real", "pending"))
    /\ migrate_requests' = migrate_requests + 1
    /\ UNCHANGED <<front, job, calc, cycle_trace, config, platform, vm_node, now, migration_history,
                   migration_blacklist, cycle, clusters, total_migrations, pass,
                   last_success, last_failure>>

\* find_target_node returned None: continue
NoTargetFound ==
    /\ pc = "sources"
    /\ ~LoopOver
    /\ vm_to_migrate # <<>>
    /\ target_index = 0
    /\ src_pos' = src_pos + 1
    /\ UNCHANGED <<front, job, calc, cycle_trace, config, platform, vm_node, now, migration_history,
                   migration_blacklist, pc, cycle, clusters, total_migrations, nodes,
                   cluster_id, overloaded_nodes, underloaded_nodes, cluster_vms,
                   migrations_performed, in_flight, ghost>>

\* faulty variant: the exception leaves the loop over the clusters as well
ClusterError_leaving_cycle ==
    /\ pc = "sources"
    /\ ~LoopOver
    /\ vm_to_migrate # <<>>
    /\ target_index = -1
    /\ pc' = "clusters"
    /\ clusters' = <<>>
    /\ cycle_trace' = [cycle_trace EXCEPT !.failed = @ \cup {cluster_id}]
    /\ NoPassNext
    /\ UNCHANGED <<front, job, calc, config, platform, vm_node, now, migration_history,
                   migration_blacklist, cycle, total_migrations, in_flight,
                   last_success, last_failure, migrate_requests>>

\* can_node_accept_vm raised ZeroDivisionError: balance_cluster is left by the
\* exception, which run_balance_cycle catches and logs; the count of this
\* cluster is not added to total_migrations
ClusterError ==
    /\ pc = "sources"
    /\ ~LoopOver
    /\ vm_to_migrate # <<>>
    /\ target_index = -1
    /\ pc' = "clusters"
    /\ cycle_trace' = [cycle_trace EXCEPT !.failed = @ \cup {cluster_id}]
    /\ NoPassNext
    /\ UNCHANGED <<front, job, calc, config, platform, vm_node, now, migration_history,
                   migration_blacklist, cycle, clusters, total_migrations, in_flight,
                   last_success, last_failure, migrate_requests>>

\* faulty variant: the VM is counted on the target and on the source too
project_target_only(ns, src, tgt) == [ns EXCEPT ![tgt].vm_count = @ + 1]

\* source_node.vm_count -= 1; target_node.vm_count += 1
project(ns, src, tgt) ==
    LET a == [ns EXCEPT ![src].vm_count = @ - 1]
    IN  [a EXCEPT ![tgt].vm_count = @ + 1]

\* the dry-run branch
SimulateMigration ==
    /\ pc = "sources"
    /\ ~LoopOver
    /\ vm_to_migrate # <<>>
    /\ target_index > 0
    /\ dry_run
    /\ migrations_performed' = migrations_performed + 1
    /\ nodes' = project(nodes, overloaded_nodes[src_pos], target_index)
    /\ src_pos' = src_pos + 1
    /\ attempts' = Append(attempts, Attempt(vm_to_migrate[1], overloaded_nodes[src_pos],
                                            target_index, "simulated", "simulated"))
    /\ UNCHANGED <<front, job, calc, cycle_trace, config, platform, vm_node, now, migration_history,
                   migration_blacklist, pc, cycle, clusters, total_migrations,
                   cluster_id, overloaded_nodes, underloaded_nodes, cluster_vms,
                   in_flight, last_success, last_failure, migrate_requests>>

\* faulty variant: the real branch is entered whatever dry_run says
SubmitMigration_in_any_mode ==
    /\ pc = "sources"
    /\ ~LoopOver
    /\ vm_to_migrate # <<>>
    /\ target_index > 0
    /\ in_flight' = <<vm_to_migrate[1], target_index>>
    /\ pc' = "migrating"
    /\ attempts' = Append(attempts, Attempt(vm_to_migrate[1], overloaded_nodes[src_pos],
                                            target_index, "real", "pending"))
    /\ migrate_requests' = migrate_requests + 1
    /\ UNCHANGED <<front, job, calc, cycle_trace, config, platform, vm_node, now, migration_history,
                   migration_blacklist, cycle, clusters, total_migrations, pass,
                   last_success, last_failure>>

\* the real branch: api.migrate_vm is called and posts the migrate request
SubmitMigration ==
    /\ pc = "sources"
    /\ ~LoopOver
    /\ vm_to_migrate # <<>>
    /\ target_index > 0
    /\ ~dry_run
    /\ in_flight' = <<vm_to_migrate[1], target_index>>
    /\ pc' = "migrating"
    /\ attempts' = Append(attempts, Attempt(vm_to_migrate[1], overloaded_nodes[src_pos],
                                            target_index, "real", "pending"))
    /\ migrate_requests' = migrate_requests + 1
    /\ UNCHANGED <<front, job, calc, cycle_trace, config, platform, vm_node, now, migration_history,
                   migration_blacklist, cycle, clusters, total_migrations, pass,
                   last_success, last_failure>>

\* list.remove(x): the first element equal to x is removed
RECURSIVE remove(_, _)
remove(s, x) ==
    IF s = <<>> THEN <<>>
    ELSE IF Head(s) = x THEN Tail(s) ELSE <<Head(s)>> \o remove(Tail(s), x)

Finished(outcome, t) ==
    [attempts EXCEPT ![Len(attempts)] = [@ EXCEPT !.outcome = outcome, !.finished_at = t]]

SuccessOutcomes == {"success", "no_job_id"}
FailureOutcomes == {"submit_error", "job_error", "timeout"}

\* faulty variant: the target is taken off the list after every success
MigrationSucceeded_dropping_target(outcome) ==
    /\ pc = "migrating"
    /\ outcome \in SuccessOutcomes
    /\ LET vm == in_flight[1]
           tgt == in_flight[2]
           projected == project(nodes, overloaded_nodes[src_pos], tgt)
       IN  /\ migration_history' = DictSet(migration_history, vm.id, now)
           /\ migrations_performed' = migrations_performed + 1
           /\ nodes' = projected
           /\ underloaded_nodes' = remove(underloaded_nodes, tgt)
           /\ vm_node' = [vm_node EXCEPT ![vm.id] = nodes[tgt].id]
           /\ last_success' = DictSet(last_success, vm.id, now)
    /\ attempts' = Finished(outcome, now)
    /\ src_pos' = src_pos + 1
    /\ pc' = "sources"
    /\ in_flight' = <<>>
    /\ UNCHANGED <<front, job, calc, cycle_trace, config, platform, now, migration_blacklist, cycle, clusters,
                   total_migrations, cluster_id, overloaded_nodes, cluster_vms,
                   last_failure, migrate_requests>>

\* migrate_vm returned True: the job reported "success", or the response
\* carried no job id.  The platform has moved the VM.
MigrationSucceeded(outcome) ==
    /\ pc = "migrating"
    /\ outcome \in SuccessOutcomes
    /\ LET vm == in_flight[1]
           tgt == in_flight[2]
           projected == project(nodes, overloaded_nodes[src_pos], tgt)
       IN  /\ migration_history' = DictSet(migration_history, vm.id, now)
           /\ migrations_performed' = migrations_performed + 1
           /\ nodes' = projected
           /\ underloaded_nodes' =
                  IF ~can_node_accept_vm(projected[tgt], vm, projected)
                  THEN remove(underloaded_nodes, tgt)
                  ELSE underloaded_nodes
           /\ vm_node' = [vm_node EXCEPT ![vm.id] = nodes[tgt].id]
           /\ last_success' = DictSet(last_success, vm.id, now)
    /\ attempts' = Finished(outcome, now)
    /\ src_pos' = src_pos + 1
    /\ pc' = "sources"
    /\ in_flight' = <<>>
    /\ UNCHANGED <<front, job, calc, cycle_trace, config, platform, now, migration_blacklist, cycle, clusters,
                   total_migrations, cluster_id, overloaded_nodes, cluster_vms,
                   last_failure, migrate_requests>>

\* faulty variant: after a failure the same source is tried again
MigrationFailed_retrying(outcome) ==
    /\ pc = "migrating"
    /\ outcome \in FailureOutcomes
    /\ attempts' = Finished(outcome, now)
    /\ last_failure' = DictSet(last_failure, in_flight[1].id, now)
    /\ pc' = "sources"
    /\ in_flight' = <<>>
    /\ UNCHANGED <<front, job, calc, cycle_trace, config, platform, vm_node, now, migration_history,
                   migration_blacklist, cycle, clusters, total_migrations, nodes,
                   cluster_id, overloaded_nodes, underloaded_nodes, cluster_vms,
                   src_pos, migrations_performed, last_success, migrate_requests>>

\* migrate_vm returned False: the request failed ("submit_error"), the job
\* reported "error" or a poll failed ("job_error"), or the polling reached
\* migration_timeout ("timeout")
MigrationFailed(outcome) ==
    /\ pc = "migrating"
    /\ outcome \in FailureOutcomes
    /\ attempts' = Finished(outcome, now)
    /\ last_failure' = DictSet(last_failure, in_flight[1].id, now)
    /\ src_pos' = src_pos + 1
    /\ pc' = "sources"
    /\ in_flight' = <<>>
    /\ UNCHANGED <<front, job, calc, cycle_trace, config, platform, vm_node, now, migration_history,
                   migration_blacklist, cycle, clusters, total_migrations, nodes,
                   cluster_id, overloaded_nodes, underloaded_nodes, cluster_vms,
                   migrations_performed, last_success, migrate_requests>>

Next ==
    \/ \E fetch \in FetchOutcomes : StartCycle(fetch)
    \/ FinishCycle
    \/ \E d \in SleepOptions : Sleep(d)
    \/ \E vms_ok \in BOOLEAN : BeginCluster(vms_ok)
    \/ EndCluster
    \/ NoVMFound
    \/ NoTargetFound
    \/ ClusterError
    \/ SimulateMigration
    \/ SubmitMigration
    \/ \E outcome \in SuccessOutcomes : MigrationSucceeded(outcome)
    \/ \E outcome \in FailureOutcomes : MigrationFailed(outcome)

Spec == Init /\ [][Next]_vars

\* the cycles of a balancer with the cap at its largest, on an inventory
\* where cluster 10 has two sources and a target that takes both VMs, takes
\* one of them, or has no cores
InitLive ==
    /\ dry_run \in BOOLEAN
    /\ max_migrations_per_cycle = MaxCap
    /\ excluded_source_nodes = {} /\ excluded_target_nodes = {} /\ cluster_ids = <<>>
    /\ vm_static = VMInventory(TRUE, 256)
    /\ \E n3 \in {Static("c", "10", 1, 0, 1024, 0, FALSE, TRUE, 0, V_none),
                  Static("c", "10", 1, 4, 1024, 0, FALSE, TRUE, 0, V_none), Node3NoCpu} :
          node_static = Inventory(Static("a", "10", 1, 4, 1024, 0, FALSE, TRUE, 0, V_none),
                                  Static("b", "10", 1, 4, 1024, 0, FALSE, TRUE, 0, V_none),
                                  n3, Node4Warm)
    /\ BalancerAtStart
    /\ FrontEndRunning /\ job = NoJob /\ calc = NoCalc

\* the thread that runs the cycles keeps running: every request of the
\* cycle is answered (or fails), the polling of a migration returns, and
\* time.sleep returns
SpecLive == InitLive /\ [][Next]_vars /\ WF_vars(Next)

(***************************************************************************)
(* The front ends: main() of vm_balancer.py and InteractiveBalancer        *)
(* (interactive.py).  Here a cycle of a balancer is reduced to what the    *)
(* front end can observe of it: it starts, submits migrations, polls the   *)
(* job of each until the job ends or the timeout passes, and returns.      *)
(* Every thread that runs cycles is modelled: the main thread (0) and the  *)
(* worker threads started by toggle_continuous_balance.                    *)
(***************************************************************************)
ThreadIds == 0..MaxWorkers
Workers == 1..MaxWorkers

\* one fixed inventory and configuration for the balancer behind the front end
FrontEndBalancer ==
    /\ InitBalancer
    /\ ~dry_run /\ max_migrations_per_cycle = MaxCap
    /\ excluded_source_nodes = {} /\ excluded_target_nodes = {} /\ cluster_ids = <<>>
    /\ node_static = Inventory(Node1Normal, Node2Warm, Node3Idle, Node4Warm)
    /\ vm_static = VMInventory(TRUE, 256)

InitFrontEnd ==
    /\ FrontEndBalancer
    /\ frontend \in {"cli", "interactive"}
    /\ password \in BOOLEAN
    /\ api = "none"
    /\ is_connected = FALSE
    /\ balance_running = FALSE
    /\ balance_thread = 0
    /\ threads = [t \in ThreadIds |->
                     IF t = 0 THEN ThreadAt(IF frontend = "cli" THEN "start" ELSE "menu", "none")
                     ELSE ThreadAt("unborn", "none")]
    /\ job = NoJob /\ calc = NoCalc

\* VMBalancer(api=...) followed by run_balance_cycle(): the thread enters a cycle
EnterCycle(thread, api_object) ==
    [thread EXCEPT !.pc = "cycle", !.api = api_object]

\* main(): the password test
CliCheckPassword ==
    /\ frontend = "cli"
    /\ threads[0].pc = "start"
    /\ IF ~password
       THEN \* sys.exit(1)
            /\ threads' = [threads EXCEPT ![0].pc = "exit1"]
            /\ UNCHANGED api
       ELSE /\ threads' = [threads EXCEPT ![0].pc = "auth"]
            /\ api' = "unauthenticated"
    /\ UNCHANGED <<balancer, job, calc, frontend, password, is_connected, balance_running,
                   balance_thread>>

\* main(): api.authenticate(), then the balancer is built and the first cycle
\* is started; sys.exit(1) when the authentication is rejected
CliAuthenticate(auth_ok) ==
    /\ frontend = "cli"
    /\ threads[0].pc = "auth"
    /\ IF auth_ok
       THEN /\ api' = "authenticated"
            /\ threads' = [threads EXCEPT ![0] = EnterCycle(@, "authenticated")]
       ELSE /\ threads' = [threads EXCEPT ![0].pc = "exit1"]
            /\ UNCHANGED api
    /\ UNCHANGED <<balancer, job, calc, frontend, password, is_connected, balance_running,
                   balance_thread>>

\* main(): time.sleep(args.interval) is over, the next cycle starts
CliNextCycle ==
    /\ frontend = "cli"
    /\ threads[0].pc = "sleeping"
    /\ threads' = [threads EXCEPT ![0] = EnterCycle(@, @.api)]
    /\ UNCHANGED <<balancer, job, calc, frontend, password, api, is_connected, balance_running,
                   balance_thread>>

\* connect_to_vmmanager (menu entry 1): a new VMManagerAPI replaces self.api,
\* then authenticate(); is_connected is set on success and left as it is on
\* failure.  entered: whether the prompt for a missing password got one (the
\* method returns at once when it did not).
Connect(entered, auth_ok) ==
    /\ frontend = "interactive"
    /\ threads[0].pc = "menu"
    /\ password \/ entered
    /\ password' = TRUE
    /\ api' = IF auth_ok THEN "authenticated" ELSE "unauthenticated"
    /\ is_connected' = IF auth_ok THEN TRUE ELSE is_connected
    /\ UNCHANGED <<balancer, job, calc, frontend, balance_running, balance_thread, threads>>

\* configure_connection with "Reconnect now?" confirmed: is_connected is
\* reset before connect_to_vmmanager is called
ConfigureConnection(auth_ok) ==
    /\ frontend = "interactive"
    /\ threads[0].pc = "menu"
    /\ is_connected
    /\ api' = IF auth_ok THEN "authenticated" ELSE "unauthenticated"
    /\ is_connected' = auth_ok
    /\ UNCHANGED <<balancer, job, calc, frontend, password, balance_running, balance_thread, threads>>

\* run_balance_once (menu entry 4), when it does not refuse: a VMBalancer is
\* built on self.api and its cycle runs in the main thread
RunBalanceOnce ==
    /\ frontend = "interactive"
    /\ threads[0].pc = "menu"
    /\ is_connected
    /\ ~balance_running
    /\ threads' = [threads EXCEPT ![0] = EnterCycle(@, api)]
    /\ UNCHANGED <<balancer, job, calc, frontend, password, api, is_connected, balance_running,
                   balance_thread>>

\* toggle_continuous_balance (menu entry 5), starting: a new thread
ToggleStart ==
    /\ frontend = "interactive"
    /\ threads[0].pc = "menu"
    /\ is_connected
    /\ ~balance_running
    /\ \E w \in Workers :
          /\ threads[w].pc = "unborn"
          /\ \A v \in Workers : v < w => threads[v].pc # "unborn"
          /\ balance_thread' = w
          /\ threads' = [threads EXCEPT ![w].pc = "created"]
    /\ balance_running' = TRUE
    /\ UNCHANGED <<balancer, job, calc, frontend, password, api, is_connected>>

\* toggle_continuous_balance, stopping: the flag is cleared and the thread
\* is joined for at most 5 seconds, whether or not it has ended by then
ToggleStop ==
    /\ frontend = "interactive"
    /\ threads[0].pc = "menu"
    /\ is_connected
    /\ balance_running
    /\ balance_running' = FALSE
    /\ threads' = [t \in ThreadIds |->
                      IF t \in Workers /\ threads[t].pc \notin {"unborn", "exited"}
                      THEN [threads[t] EXCEPT !.stopping = TRUE]
                      ELSE threads[t]]
    /\ UNCHANGED <<balancer, job, calc, frontend, password, api, is_connected, balance_thread>>

\* _continuous_balance_worker: the thread runs and builds its VMBalancer on
\* the API object that self.api names at that time
WorkerBegin(w) ==
    /\ threads[w].pc = "created"
    /\ threads' = [threads EXCEPT ![w].pc = "loop", ![w].api = api]
    /\ UNCHANGED <<balancer, job, calc, frontend, password, api, is_connected, balance_running,
                   balance_thread>>

\* while self.balance_running: run_balance_cycle()
WorkerLoop(w) ==
    /\ threads[w].pc = "loop"
    /\ threads' = [threads EXCEPT ![w] = IF balance_running THEN EnterCycle(@, @.api)
                                         ELSE [@ EXCEPT !.pc = "exited"]]
    /\ UNCHANGED <<balancer, job, calc, frontend, password, api, is_connected, balance_running,
                   balance_thread>>

\* the wait between two cycles ends: the interval is over, or the flag was
\* found cleared by the test made every second
WorkerWake(w) ==
    /\ threads[w].pc = "sleeping"
    /\ threads' = [threads EXCEPT ![w].pc = "loop"]
    /\ UNCHANGED <<balancer, job, calc, frontend, password, api, is_connected, balance_running,
                   balance_thread>>

\* balance_cluster calls api.migrate_vm: the migrate request is posted
SubmitJob(t) ==
    /\ threads[t].pc = "cycle"
    /\ threads' = [threads EXCEPT ![t].pc = "polling",
                                  ![t].submits_after_stop =
                                      IF threads[t].stopping THEN 1 ELSE @]
    /\ UNCHANGED <<balancer, job, calc, frontend, password, api, is_connected, balance_running,
                   balance_thread>>

\* one iteration of the loop of wait_for_job_completion, as the thread that
\* waits goes through it: the job is found ended, or it is running and the
\* loop goes on unless the timeout has passed (expired)
PollJob(t, status, expired) ==
    /\ threads[t].pc = "polling"
    /\ threads' = [threads EXCEPT
                      ![t].polls_after_stop =
                          IF threads[t].stopping /\ @ < 2 THEN @ + 1 ELSE @,
                      ![t].pc = IF status = "running" /\ ~expired
                                THEN "polling" ELSE "cycle"]
    /\ UNCHANGED <<balancer, job, calc, frontend, password, api, is_connected, balance_running,
                   balance_thread>>

\* run_balance_cycle returns: main() sleeps, run_balance_once goes back to
\* the menu, the worker waits for the interval
CycleReturns(t) ==
    /\ threads[t].pc = "cycle"
    /\ threads' = [threads EXCEPT ![t].pc = IF t = 0 /\ frontend = "interactive"
                                            THEN "menu" ELSE "sleeping"]
    /\ UNCHANGED <<balancer, job, calc, frontend, password, api, is_connected, balance_running,
                   balance_thread>>

\* KeyboardInterrupt: it is raised in the main thread, caught by main(), and
\* the process ends (the worker threads are daemon threads)
Interrupt ==
    /\ threads[0].pc \notin {"exit1", "exited"}
    /\ threads' = [t \in ThreadIds |->
                      IF threads[t].pc = "unborn" THEN threads[t]
                      ELSE [threads[t] EXCEPT !.pc = "exited"]]
    /\ balance_running' = FALSE
    /\ UNCHANGED <<balancer, job, calc, frontend, password, api, is_connected, balance_thread>>

PollStatuses == {"running", "success", "error"}

NextFrontEnd ==
    \/ CliCheckPassword
    \/ \E auth_ok \in BOOLEAN : CliAuthenticate(auth_ok)
    \/ CliNextCycle
    \/ \E entered, auth_ok \in BOOLEAN : Connect(entered, auth_ok)
    \/ \E auth_ok \in BOOLEAN : ConfigureConnection(auth_ok)
    \/ RunBalanceOnce
    \/ ToggleStart
    \/ ToggleStop
    \/ \E w \in Workers : WorkerBegin(w)
    \/ \E w \in Workers : WorkerLoop(w)
    \/ \E w \in Workers : WorkerWake(w)
    \/ \E t \in ThreadIds : SubmitJob(t)
    \/ \E t \in ThreadIds, status \in PollStatuses, expired \in BOOLEAN :
          PollJob(t, status, expired)
    \/ \E t \in ThreadIds : CycleReturns(t)
    \/ Interrupt

SpecFrontEnd == InitFrontEnd /\ [][NextFrontEnd]_vars

(***************************************************************************)
(* VMManagerAPI.wait_for_job_completion, one loop iteration at a time.     *)
(* Time is counted in units of the 5 seconds slept between two polls; the  *)
(* clock is read at the head of the loop, a request may take one more unit *)
(* to answer.  The platform chooses the answer of every poll.              *)
(***************************************************************************)
\* what GET /vm/v3/task/{job_id} may carry as 'status' ("" when the key is
\* missing), and "raise" for a transport error, an HTTP error status or a
\* body that is not JSON
JobAnswers == {"success", "SUCCESS", "error", "running", "", "raise"}

\* str.lower() on the strings of the model
lower(status) ==
    CASE status = "SUCCESS" -> "success"
      [] status \in {"Active", "ACTIVE"} -> "active"
      [] OTHER -> status

\* the condition of the while loop
poll_continues(elapsed, timeout) == elapsed < timeout

job_succeeded(status) == lower(status) = "success"

job_failed_never(status) == FALSE

job_failed(status) == lower(status) = "error"

\* wait_for_job_completion(job_id, timeout) is called
InitPoll ==
    /\ FrontEndBalancer
    /\ FrontEndRunning
    /\ \E timeout \in 0..MaxPolls :
          job = [NoJob EXCEPT !.pc = "loop", !.timeout = timeout]
    /\ calc = NoCalc

\* the head of the loop: the next request is sent, or the timeout has passed
\* and the method returns False
PollLoop ==
    /\ job.pc = "loop"
    /\ job' = IF poll_continues(job.elapsed, job.timeout)
              THEN [job EXCEPT !.pc = "request", !.issued = Append(@, job.elapsed)]
              ELSE [job EXCEPT !.pc = "returned", !.result = FALSE]
    /\ UNCHANGED <<balancer, front, calc>>

\* the answer of one poll, after latency units: an exception or a terminal
\* status returns, anything else sleeps 5 seconds and loops
PollResponse(answer, latency) ==
    /\ job.pc = "request"
    /\ job' = IF answer = "raise"
              THEN [job EXCEPT !.pc = "returned", !.result = FALSE,
                               !.observed = Append(@, answer),
                               !.elapsed = @ + latency]
              ELSE IF job_succeeded(answer)
              THEN [job EXCEPT !.pc = "returned", !.result = TRUE,
                               !.observed = Append(@, answer),
                               !.elapsed = @ + latency]
              ELSE IF job_failed(answer)
              THEN [job EXCEPT !.pc = "returned", !.result = FALSE,
                               !.observed = Append(@, answer),
                               !.elapsed = @ + latency]
              ELSE [job EXCEPT !.pc = "loop", !.observed = Append(@, answer),
                               !.elapsed = @ + latency + 1]
    /\ UNCHANGED <<balancer, front, calc>>

NextPoll ==
    \/ PollLoop
    \/ \E answer \in JobAnswers, latency \in 0..1 : PollResponse(answer, latency)

\* the thread that polls keeps running: time.sleep and the request return
SpecPoll == InitPoll /\ [][NextPoll]_vars /\ WF_vars(NextPoll)

(***************************************************************************)
(* Successive invocations of 'Run Balance (Once)' in interactive mode:     *)
(* every invocation builds a VMBalancer of its own and runs one cycle of   *)
(* it.  The cycle itself is the one of Spec.                               *)
(***************************************************************************)
\* the menu of a connected InteractiveBalancer, before the first invocation
InitOnce ==
    /\ InitBalancer
    /\ frontend = "interactive" /\ password = TRUE /\ api = "authenticated"
    /\ is_connected = TRUE /\ balance_running = FALSE /\ balance_thread = 0
    /\ threads = <<>>
    /\ job = NoJob /\ calc = NoCalc

\* run_balance_once, d ticks after the previous invocation returned:
\* VMBalancer(...) is constructed, its migration_history is {}, and
\* run_balance_cycle() is called
RunBalanceOnceAgain(d) ==
    /\ pc = "sleeping"
    /\ cycle < MaxCycles
    /\ is_connected /\ ~balance_running
    /\ now' = now + d
    /\ migration_history' = EmptyDict
    /\ pc' = "start"
    /\ cycle_trace' = NoTrace
    /\ UNCHANGED <<front, job, calc, config, platform, vm_node, migration_blacklist,
                   cycle, clusters, total_migrations, pass, in_flight, ghost>>

NextOnce ==
    \/ \E fetch \in FetchOutcomes : StartCycle(fetch)
    \/ FinishCycle
    \/ \E d \in SleepOptions : RunBalanceOnceAgain(d)
    \/ \E vms_ok \in BOOLEAN : BeginCluster(vms_ok)
    \/ EndCluster
    \/ NoVMFound
    \/ NoTargetFound
    \/ ClusterError
    \/ SimulateMigration
    \/ SubmitMigration
    \/ \E outcome \in SuccessOutcomes : MigrationSucceeded(outcome)
    \/ \E outcome \in FailureOutcomes : MigrationFailed(outcome)

SpecOnce == InitOnce /\ [][NextOnce]_vars

(***************************************************************************)
(* Single calls.  A function of the program is called once on arguments    *)
(* drawn from a small set; the call is followed from its arguments to its  *)
(* result.  Nothing else happens in these behaviours.                      *)
(***************************************************************************)
\* the other variables during a single call
Idle == FrontEndBalancer /\ FrontEndRunning /\ job = NoJob

\* dict[key] = opt[1] when the optional value opt is present
OptSet(d, key, opt) == IF opt = <<>> THEN d ELSE DictSet(d, key, opt[1])

(***************************************************************************)
(* VMManagerAPI.can_vm_migrate.  vm_data is one element of the "list" of   *)
(* GET /vm/v3/host, a dict in which any of the four keys may be missing.   *)
(***************************************************************************)
can_vm_migrate(vm_data) ==
    LET state == lower(DictGet(vm_data, "state", ""))
        has_iso == DictGet(vm_data, "iso_mounted", FALSE)
        has_snapshots == DictGet(vm_data, "snapshot_count", 0) > 0
        balancer_disabled == DictGet(vm_data, "balancer_mode", "off") = "off"
    IN  IF state # "active" THEN FALSE
        ELSE IF has_iso THEN FALSE
        ELSE IF has_snapshots THEN FALSE
        ELSE IF balancer_disabled THEN FALSE
        ELSE TRUE

\* the dict that the JSON decoder builds from the four optional values
VmData(input) ==
    OptSet(OptSet(OptSet(OptSet(EmptyDict, "state", input.state),
                         "iso_mounted", input.iso_mounted),
                  "snapshot_count", input.snapshot_count),
           "balancer_mode", input.balancer_mode)

\* get_cluster_vms calls can_vm_migrate(vm_data)
CallCanVmMigrate ==
    /\ calc.op = "can_vm_migrate"
    /\ ~calc.done
    /\ calc' = [calc EXCEPT !.done = TRUE, !.output = can_vm_migrate(VmData(calc.input))]
    /\ UNCHANGED <<balancer, front, job>>

\* version strings as the nodes report them: none, "6.1.0", "7.2.0",
\* "7.2.0-1u", "10.0", "7.2", "7.2.0.1"
QemuVersions ==
    {V_none, V_6_1_0, V_7_2_0, V_7_2_0_ubuntu, V_10_0, <<"7", ".", "2">>,
     <<"7", ".", "2", ".", "0", ".", "1">>}

\* the two comparisons of QEMU versions, called on the same pair of nodes
CallQemu ==
    /\ calc.op = "qemu"
    /\ ~calc.done
    /\ calc' = [calc EXCEPT
                  !.done = TRUE,
                  !.output =
                      [api |-> compare_qemu_versions(calc.input.source, calc.input.target),
                       estimator |-> check_qemu_compatibility(calc.input.target,
                                                              <<calc.input.source>>)]]
    /\ UNCHANGED <<balancer, front, job>>

(***************************************************************************)
(* The choices of balance_cluster on a node list and a VM list: the two    *)
(* lists it builds and, for each source in turn, the VM and the target it  *)
(* picks from the snapshots as fetched.  The call is made twice on the     *)
(* same arguments; `output` holds the results of the calls made so far.    *)
(***************************************************************************)
NodeInfo(id, name, cpu_total, cpu_used, memory_total_mb, memory_used_mb, is_maintenance) ==
    [id |-> id, name |-> name, cpu_total |-> cpu_total, cpu_used |-> cpu_used,
     memory_total_mb |-> memory_total_mb, memory_used_mb |-> memory_used_mb,
     vm_count |-> 0, is_maintenance |-> is_maintenance, vm_creation_allowed |-> TRUE,
     vm_limit |-> 0, qemu_version |-> V_none]

VMInfo(id, node_id, cpu_cores, memory_mb) ==
    [id |-> id, node_id |-> node_id, cpu_cores |-> cpu_cores, memory_mb |-> memory_mb,
     can_migrate |-> TRUE]

balance_cluster_choices(ns, vms, excl_src, excl_tgt, history, t) ==
    LET ov == find_overloaded_nodes(ns, excl_src)
        un == find_underloaded_nodes(ns, excl_tgt)
        choice(k) ==
            LET vm == select_vm_for_migration(vms, ns[ov[k]], history, t)
            IN  [vm |-> vm,
                 target |-> IF vm = <<>> THEN 0 ELSE find_target_node(vm[1], un, ns, 1)]
    IN  [sources |-> ov, targets |-> un,
         pairs |-> IF ov = <<>> \/ un = <<>> THEN <<>>
                   ELSE [k \in 1..Len(ov) |-> choice(k)]]

\* the node lists of the calls: nodes above, at and below the thresholds,
\* several of them with equal sort keys; a node that is both above the
\* memory overload threshold and below the memory target threshold; nodes
\* that may not take VMs (maintenance, VM creation not allowed, VM limit
\* reached)
NodeLists ==
    {<<n1, n2, n3, n4>> :
        n1 \in {NodeInfo("1", "a", 1, 8, 1000, 0, FALSE), NodeInfo("1", "a", 1, 7, 1000, 700, FALSE),
                NodeInfo("1", "a", 1, 0, 1000, 701, FALSE), NodeInfo("1", "a", 1, 8, 1000, 0, TRUE),
                NodeInfo("1", "a", 1, 0, 4000, 2900, FALSE)},
        n2 \in {NodeInfo("2", "b", 1, 8, 1000, 0, FALSE), NodeInfo("2", "b", 2, 16, 1000, 100, FALSE),
                NodeInfo("2", "b", 1, 9, 1000, 0, FALSE)},
        n3 \in {NodeInfo("3", "c", 1, 0, 1000, 0, FALSE), NodeInfo("3", "c", 1, 2, 1000, 100, FALSE),
                NodeInfo("3", "c", 1, 0, 1000, 600, FALSE), NodeInfo("3", "c", 1, 0, 1000, 0, TRUE)},
        n4 \in {NodeInfo("4", "d", 1, 0, 1000, 0, FALSE), NodeInfo("4", "d", 2, 4, 1000, 100, FALSE),
                NodeInfo("4", "d", 1, 6, 1000, 0, FALSE), NodeInfo("4", "d", 1, 0, 1000, 800, FALSE),
                [NodeInfo("4", "d", 1, 0, 1000, 0, FALSE) EXCEPT !.vm_creation_allowed = FALSE],
                [NodeInfo("4", "d", 1, 0, 1000, 0, FALSE) EXCEPT !.vm_limit = 2, !.vm_count = 2],
                [NodeInfo("4", "d", 1, 0, 1000, 0, FALSE) EXCEPT !.vm_limit = 2, !.vm_count = 1]}}

\* the VM list of the calls: two VMs of equal size on each of the first two
\* nodes (1 core + 1024 MB and 2 cores + 0 MB have the same size)
VMList ==
    <<VMInfo("101", "1", 2, 256), VMInfo("102", "1", 2, 256),
      VMInfo("103", "2", 1, 1024), VMInfo("104", "2", 2, 0)>>

CallBalanceChoices ==
    /\ calc.op = "choices"
    /\ ~calc.done
    /\ LET in == calc.input
           result == balance_cluster_choices(in.nodes, VMList, in.excl_src, in.excl_tgt,
                                             in.history, in.now)
       IN  calc' = [calc EXCEPT !.output = Append(@, result),
                                 !.done = Len(calc.output) = 1]
    /\ UNCHANGED <<balancer, front, job>>

\* can_node_accept_vm(node, vm), with the estimates in floating point;
\* _current_cluster_nodes is calc.input.nodes
CallCanNodeAcceptVm ==
    /\ calc.op = "can_node_accept_vm"
    /\ ~calc.done
    /\ LET node == calc.input.nodes[2]
           vm == calc.input.vm
           estimated == estimate_post_migration_resources(node, vm)
           cpu_ok == FloatLT(estimated.cpu_ratio, cpu_overload_threshold)
           memory_ok == FloatLT(estimated.memory_percent, memory_overload_threshold)
       IN  calc' = [calc EXCEPT
                       !.done = TRUE,
                       !.output = cpu_ok /\ memory_ok /\ qemu_ok(node, vm, calc.input.nodes)]
    /\ UNCHANGED <<balancer, front, job>>

\* the arguments of the calls; <<>> stands for a missing key of vm_data
InitCall ==
    /\ Idle
    /\ \/ \E st \in {<<>>, <<"active">>, <<"Active">>, <<"ACTIVE">>, <<"stopped">>},
             iso \in {<<>>, <<FALSE>>, <<TRUE>>},
             sn \in {<<>>, <<0>>, <<1>>, <<3>>},
             bm \in {<<>>, <<"off">>, <<"cluster">>, <<"node">>} :
             calc = Call("can_vm_migrate",
                         [state |-> st, iso_mounted |-> iso, snapshot_count |-> sn,
                          balancer_mode |-> bm])
       \/ \E source, target \in QemuVersions :
             calc = Call("qemu", [source |-> source, target |-> target])
       \/ \E ns \in NodeLists, excl_src \in {{}, {"a"}, {"2"}}, excl_tgt \in {{}, {"c"}, {"4"}},
             history \in {EmptyDict, DictSet(EmptyDict, "101", 0)},
             t \in {HistoryRetention, HistoryRetention + 1} :
             calc = Call("choices", [nodes |-> ns, excl_src |-> excl_src,
                                     excl_tgt |-> excl_tgt, history |-> history, now |-> t])
       \/ \E cpu_total \in {1, 2}, cpu_used \in {4, 12}, cpu_cores \in {1, 2},
             memory_total_mb \in {1000, 1024}, memory_used_mb \in {0, 1, 100},
             memory_mb \in {256, 699, 700},
             source_version \in {V_none, V_7_2_0}, target_version \in {V_6_1_0, V_7_2_0} :
             calc = Call("can_node_accept_vm",
                         [nodes |-> <<[NodeInfo("1", "a", 1, 8, 1024, 0, FALSE)
                                          EXCEPT !.qemu_version = source_version],
                                      [NodeInfo("2", "b", cpu_total, cpu_used, memory_total_mb,
                                                memory_used_mb, FALSE)
                                          EXCEPT !.qemu_version = target_version]>>,
                          vm |-> VMInfo("101", "1", cpu_cores, memory_mb)])

NextCall ==
    \/ CallCanVmMigrate
    \/ CallQemu
    \/ CallBalanceChoices
    \/ CallCanNodeAcceptVm

SpecCall == InitCall /\ [][NextCall]_vars

(***************************************************************************)
(* Properties of the control loop.                                         *)
(***************************************************************************)
\* the entries of `attempts` that balance_cluster counted as performed
Counted == {i \in DOMAIN attempts : attempts[i].outcome \in SuccessOutcomes \cup {"simulated"}}

\* the VM that the current step of the loop has selected, if any
Selected ==
    IF pc = "migrating" THEN <<in_flight[1]>>
    ELSE IF pc = "sources" /\ ~LoopOver THEN vm_to_migrate
    ELSE <<>>

\* the blacklist retention H_fail: the same hour as the history retention
BlacklistRetention == HistoryRetention

C2_AntiThrash ==
    \A k \in DOMAIN Selected :
        Selected[k].id \in DOMAIN last_success
            => now >= last_success[Selected[k].id] + HistoryRetention

\* C2: a VM that was migrated before is submitted again, after the hour
C2_Witness ==
    /\ pc = "migrating"
    /\ in_flight[1].id \in DOMAIN last_success

\* C3: a VM whose migration failed at time t is not attempted again before
\* t + H_fail.
C3_Blacklist ==
    pc = "migrating" /\ in_flight[1].id \in DOMAIN last_failure
        => now >= last_failure[in_flight[1].id] + BlacklistRetention

\* C4: no issued or simulated migration has a source node whose name or id is
\* in excluded_source_nodes, nor a target node whose name or id is in
\* excluded_target_nodes.
C4_Exclusion ==
    \A i \in DOMAIN attempts :
        LET s == nodes[attempts[i].source]
            t == nodes[attempts[i].target]
        IN  /\ s.name \notin excluded_source_nodes /\ s.id \notin excluded_source_nodes
            /\ t.name \notin excluded_target_nodes /\ t.id \notin excluded_target_nodes

\* C4: a migration is attempted in a cluster one of whose nodes is excluded
\* by its id
C4_Witness ==
    /\ attempts # <<>>
    /\ \E i \in DOMAIN nodes :
          nodes[i].id \in excluded_source_nodes \cup excluded_target_nodes

\* C5: no issued or simulated migration targets a node in maintenance or with
\* vm_creation_allowed = false, and none takes a VM from a node in maintenance.
C5_MaintenanceIsolation ==
    \A i \in DOMAIN attempts :
        LET s == nodes[attempts[i].source]
            t == nodes[attempts[i].target]
        IN  ~t.is_maintenance /\ t.vm_creation_allowed /\ ~s.is_maintenance

\* C5: a migration is attempted in a cluster that has a node in maintenance
\* or closed to VM creation
C5_Witness ==
    /\ attempts # <<>>
    /\ \E i \in DOMAIN nodes : nodes[i].is_maintenance \/ ~nodes[i].vm_creation_allowed

\* C6: after the projection of every migration of a pass, every target with
\* vm_limit > 0 has vm_count <= vm_limit, whatever the cap and however many
\* sources place their VM on the same target.
C6_VMLimit ==
    \A i \in Counted :
        LET t == nodes[attempts[i].target]
        IN  t.vm_limit > 0 => t.vm_count <= t.vm_limit

\* C7: after the projection of every migration of a pass, the target's
\* cpu_allocation_ratio is below cpu_overload_threshold and its
\* memory_usage_percent below memory_overload_threshold, counting the cores
\* and the memory of every VM placed on it in this pass.
C7_ThresholdContract ==
    \A i \in Counted :
        LET tgt == attempts[i].target
            placed_cpu[k \in 0..Len(attempts)] ==
                IF k = 0 THEN 0
                ELSE placed_cpu[k - 1]
                     + (IF k \in Counted /\ attempts[k].target = tgt
                        THEN attempts[k].vm.cpu_cores ELSE 0)
            placed_mem[k \in 0..Len(attempts)] ==
                IF k = 0 THEN 0
                ELSE placed_mem[k - 1]
                     + (IF k \in Counted /\ attempts[k].target = tgt
                        THEN attempts[k].vm.memory_mb ELSE 0)
            loaded == [nodes[tgt] EXCEPT
                          !.cpu_used = @ + placed_cpu[Len(attempts)],
                          !.memory_used_mb = @ + placed_mem[Len(attempts)]]
        IN  /\ FracLT(cpu_allocation_ratio(loaded), Frac(cpu_overload_threshold, 1))
            /\ FracLT(memory_usage_percent(loaded), Frac(memory_overload_threshold, 1))

\* C8: for every issued (or simulated) migration whose source and target both
\* have a known QEMU version, the target's parsed version tuple is greater
\* than or equal to the source's.
C8_QemuMonotone ==
    \A i \in DOMAIN attempts :
        LET s == nodes[attempts[i].source]
            t == nodes[attempts[i].target]
        IN  s.qemu_version # <<>> /\ t.qemu_version # <<>>
                => TupleGE(parse_version(t.qemu_version), parse_version(s.qemu_version))

\* C8: a migration is issued between two nodes of known, different versions
C8_Witness ==
    \E i \in DOMAIN attempts :
        LET s == nodes[attempts[i].source]
            t == nodes[attempts[i].target]
        IN  /\ attempts[i].mode = "real"
            /\ s.qemu_version # <<>> /\ t.qemu_version # <<>>
            /\ parse_version(t.qemu_version) # parse_version(s.qemu_version)

\* C9: in dry-run mode no migrate request is ever sent and the history and
\* blacklist maps are never modified.
C9_DryRunPurity ==
    dry_run => /\ migrate_requests = 0
               /\ migration_history = EmptyDict
               /\ migration_blacklist = EmptyDict

\* C9: a dry run simulates a migration in a cycle after the first
C9_Witness == dry_run /\ cycle > 1 /\ Counted # {}

\* C10: when a real migration fails (submission error, job failure, polling
\* timeout), the VM id is recorded in the blacklist with the current time,
\* performed is not incremented, no projection is applied, history is
\* unchanged, and the loop continues with the next source.
C10_FailureHandling ==
    [][(pc = "migrating" /\ pc' # "migrating"
            /\ attempts'[Len(attempts')].outcome \in FailureOutcomes)
        => /\ migration_blacklist' = DictSet(migration_blacklist, in_flight[1].id, now)
           /\ migrations_performed' = migrations_performed
           /\ nodes' = nodes
           /\ migration_history' = migration_history
           /\ pc' = "sources" /\ src_pos' = src_pos + 1]_vars

\* C11: a history entry is recorded for a VM, and performed is incremented
\* for it, only when the VM's migration job was reported successful (status
\* 'success'); a response without a tracked successful job, a failure or a
\* timeout never records history.
C11_HistoryOnlyOnJobSuccess ==
    [][(migration_history' # migration_history
            \/ (pc = "migrating" /\ migrations_performed' = migrations_performed + 1))
        => attempts'[Len(attempts')].outcome = "success"]_vars

\* C12: after every successful real and every simulated migration of VM v
\* from s to t, s.vm_count, s.cpu_used and s.memory_used_mb decrease by 1,
\* v.cpu_cores and v.memory_mb and the three counters of t increase by the
\* same amounts, before the next source is considered.
C12_Projection ==
    [][(pc \in {"sources", "migrating"} /\ migrations_performed' = migrations_performed + 1)
        => LET a == attempts'[Len(attempts')]
               s == nodes[a.source]
               t == nodes[a.target]
           IN  /\ nodes'[a.source] =
                      [s EXCEPT !.vm_count = @ - 1, !.cpu_used = @ - a.vm.cpu_cores,
                                !.memory_used_mb = @ - a.vm.memory_mb]
               /\ nodes'[a.target] =
                      [t EXCEPT !.vm_count = @ + 1, !.cpu_used = @ + a.vm.cpu_cores,
                                !.memory_used_mb = @ + a.vm.memory_mb]]_vars

\* C13: within one pass of balance_cluster each source node is the source of
\* at most one migration attempt and no VM is submitted more than once,
\* whatever the outcome of its attempt.
C13_OneAttemptPerSource ==
    \A i, j \in DOMAIN attempts :
        i # j => /\ attempts[i].source # attempts[j].source
                 /\ attempts[i].vm.id # attempts[j].vm.id

\* C13: a pass goes on to a second source after the attempt of the first failed
C13_Witness ==
    /\ Len(attempts) >= 2
    /\ attempts[1].outcome \in FailureOutcomes

\* C14: if the reachability test fails at the start of a cycle, the cycle
\* returns without listing clusters, without submitting a migration and
\* without changing history, blacklist or any node snapshot, and the worker
\* is where it is after any cycle: about to sleep until the next one.
C14_UnreachableAbortsCycle ==
    [][(pc = "start" /\ cycle_trace'.fetch = "unreachable")
        => /\ pc' = "sleeping"
           /\ UNCHANGED <<clusters, nodes, cluster_vms, in_flight, migrate_requests,
                          migration_history, migration_blacklist, vm_node>>]_vars

\* C14: a cycle finds the manager unreachable after an earlier cycle migrated
C14_Witness ==
    /\ pc = "sleeping"
    /\ cycle_trace.fetch = "unreachable"
    /\ migration_history # EmptyDict

\* the clusters that a cycle has to balance
ExpectedClusters ==
    {c \in SeqRange(ClusterOrder) : cluster_ids = <<>> \/ c \in SeqRange(cluster_ids)}

\* C15: an error met while balancing one cluster (its nodes or VMs cannot be
\* listed, or its pass raises) does not prevent the remaining clusters of the
\* cycle from being processed, nor later cycles from running: in a cycle
\* every cluster to balance has had its pass begun or is still waiting for it.
C15_ClusterErrorIsolated ==
    pc \in {"clusters", "sources", "migrating"}
        => cycle_trace.begun \cup {clusters[k].id : k \in DOMAIN clusters} = ExpectedClusters

\* C15: the second cluster is balanced after the first one failed
C15_Witness ==
    /\ pc = "migrating"
    /\ cluster_id = ClusterOrder[2]
    /\ ClusterOrder[1] \in cycle_trace.failed

\* the answers that end the polling: a success or error status in any
\* letter case, or an error raised by the request
Terminal(answer) == answer \in {"success", "SUCCESS", "error", "raise"}

\* some poll sent before the timeout elapsed saw 'success', and no poll
\* before it saw 'error' or raised
SuccessObserved ==
    \E k \in DOMAIN job.observed :
        /\ job.observed[k] \in {"success", "SUCCESS"}
        /\ job.issued[k] < job.timeout
        /\ \A j \in 1..(k - 1) : ~Terminal(job.observed[j])

\* C17: wait_for_job_completion returns True exactly when some poll sent
\* before the timeout saw 'success' and none before it saw 'error' or raised
\* (so it returns False on the first error status, on a raised error and on
\* timeout), and for every sequence of answers it returns
C17_PollContract ==
    /\ [](job.pc = "returned" => (job.result <=> SuccessObserved))
    /\ [](job.pc = "returned" /\ ~job.result =>
            \/ job.observed # <<>> /\ job.observed[Len(job.observed)] \in {"error", "raise"}
            \/ job.elapsed >= job.timeout)
    /\ <>(job.pc = "returned")

\* C17: a job seen running and then successful, within the timeout
C17_Witness ==
    /\ job.pc = "returned"
    /\ job.result
    /\ Len(job.observed) >= 2
    /\ job.observed[1] \in {"running", ""}

\* the threads that are inside run_balance_cycle
InCycle == {t \in ThreadIds : threads[t].pc \in {"cycle", "polling"}}

\* C16: a balancing cycle (and so every inventory or migration request it
\* makes) runs only on an API object whose authenticate() has succeeded
C16_AuthenticatedBeforeCycle ==
    \A t \in InCycle : threads[t].api = "authenticated"

\* C18: a worker that the operator has stopped submits no further migration
\* and polls its in-flight job at most once more
C18_StopIsPrompt ==
    \A t \in ThreadIds :
        threads[t].stopping =>
            threads[t].submits_after_stop = 0 /\ threads[t].polls_after_stop <= 1

\* C19: in interactive mode at most one thread is inside a balancing cycle
C19_OneCycleAtATime ==
    frontend = "interactive" => Cardinality(InCycle) <= 1

\* C20: in interactive mode a VM whose migration succeeded in one invocation
\* of the balance is not selected by a later invocation made less than one
\* hour after it
C20_HistorySpansInvocations ==
    frontend = "interactive" =>
        \A k \in DOMAIN Selected :
            \A v \in DOMAIN last_success :
                Selected[k].id = v => now - last_success[v] >= HistoryRetention

\* the VMs whose migration was submitted at some time
EverSubmitted ==
    DOMAIN last_success \cup DOMAIN last_failure
        \cup (IF pc = "migrating" THEN {in_flight[1].id} ELSE {})

\* C21: a VM for which find_target_node finds no accepting target is not
\* submitted (no migrate request, no attempt, nothing in flight) and gets no
\* history and no blacklist entry; the pass goes on to the next source.  Only
\* VMs whose migration was submitted are in the blacklist or in the history.
C21_NoTargetNoAttempt ==
    /\ [](DOMAIN migration_blacklist \cup DOMAIN migration_history \subseteq EverSubmitted)
    /\ [][(pc = "sources" /\ ~LoopOver /\ vm_to_migrate # <<>>
               /\ \A k \in DOMAIN underloaded_nodes :
                     LET t == nodes[underloaded_nodes[k]]
                     IN  ~can_node_accept_vm_raises(t)
                           /\ ~can_node_accept_vm(t, vm_to_migrate[1], nodes))
            => /\ pc' = "sources" /\ src_pos' = src_pos + 1
               /\ UNCHANGED <<migrate_requests, attempts, in_flight, migration_history,
                              migration_blacklist, last_success, last_failure, vm_node,
                              migrations_performed>>]_vars

\* C21: the pass has gone past its first source without an attempt, because
\* the only target has an older QEMU version than the node of the selected VM
C21_Witness ==
    /\ pc = "sources"
    /\ src_pos = 2
    /\ attempts = <<>>
    /\ LET vm == select_vm_for_migration(cluster_vms, nodes[overloaded_nodes[1]],
                                         migration_history, now)
       IN  /\ vm # <<>>
           /\ find_target_node(vm[1], underloaded_nodes, nodes, 1) = 0
           /\ \E k \in DOMAIN underloaded_nodes :
                 ~qemu_ok(nodes[underloaded_nodes[k]], vm[1], nodes)

\* the cluster has no node that qualifies as a source
NoSourceIn(c) ==
    \A i \in DOMAIN c.nodes :
        LET n == c.nodes[i]
        IN  \/ n.name \in excluded_source_nodes \/ n.id \in excluded_source_nodes
            \/ n.is_maintenance
            \/ /\ ~FracGT(cpu_allocation_ratio(n), Frac(cpu_overload_threshold, 1))
               /\ ~FracGT(memory_usage_percent(n), Frac(memory_overload_threshold, 1))

\* the cluster has no node that qualifies as a target
NoTargetIn(c) ==
    \A i \in DOMAIN c.nodes :
        LET n == c.nodes[i]
        IN  \/ n.name \in excluded_target_nodes \/ n.id \in excluded_target_nodes
            \/ n.is_maintenance \/ ~n.vm_creation_allowed
            \/ (n.vm_limit > 0 /\ n.vm_count >= n.vm_limit)
            \/ ~FracLT(cpu_allocation_ratio(n), Frac(cpu_target_threshold, 1))
            \/ ~FracLT(memory_usage_percent(n), Frac(memory_target_threshold, 1))

\* C22: the pass of a cluster without overloaded source or without eligible
\* target returns at once: it counts no migration, requests neither the VM
\* list nor a migration, and leaves the history, the blacklist, the placement
\* of the VMs and the node snapshots as they are.
C22_EmptyListsSkipCluster ==
    [][(pc = "clusters" /\ clusters # <<>>
            /\ (NoSourceIn(Head(clusters)) \/ NoTargetIn(Head(clusters))))
        => /\ pc' = "clusters" /\ clusters' = Tail(clusters)
           /\ cycle_trace'.listed = cycle_trace.listed
           /\ UNCHANGED <<total_migrations, migrate_requests, migration_history,
                          migration_blacklist, vm_node, pass, in_flight, last_success,
                          last_failure>>]_vars

\* C22: the pass of the first cluster has returned without requesting the VM
\* list although the cluster has an overloaded node: no node is a target
C22_Witness ==
    /\ pc = "clusters"
    /\ ClusterOrder[1] \in cycle_trace.begun \ cycle_trace.listed
    /\ LET c == [id |-> ClusterOrder[1], nodes |-> get_cluster_nodes(ClusterOrder[1])]
       IN  ~NoSourceIn(c) /\ NoTargetIn(c)

Min(a, b) == IF a < b THEN a ELSE b

\* every source visited so far by the pass had a VM and a target for it, and
\* every migration succeeded (or was simulated)
AllSucceeded ==
    /\ Len(attempts) = Min(src_pos - 1, Len(overloaded_nodes))
    /\ Counted = DOMAIN attempts

\* the sort key of the k-th source of the pass
SourceKey(k) ==
    <<FracMax(cpu_allocation_ratio(nodes[overloaded_nodes[k]]),
              memory_usage_percent(nodes[overloaded_nodes[k]]))>>

C25_ClusterFilter ==
    /\ cluster_ids # <<>> =>
          /\ cycle_trace.begun \subseteq SeqRange(cluster_ids)
          /\ pc \in {"sources", "migrating"} => cluster_id \in SeqRange(cluster_ids)
    /\ (cluster_ids = <<>> /\ pc = "clusters" /\ clusters = <<>>) =>
          cycle_trace.begun = SeqRange(ClusterOrder)

\* C25: with cluster_ids = ["10"] the cycle has balanced cluster 10 and ends
\* without entering cluster 20, which has an overloaded node
C25_Witness ==
    /\ cluster_ids = <<"10">>
    /\ pc = "clusters" /\ clusters = <<>>
    /\ cycle_trace.begun = {"10"}
    /\ find_overloaded_nodes(get_cluster_nodes("20"), excluded_source_nodes) # <<>>

\* C26: can_vm_migrate is true exactly when the state is 'active' in any
\* letter case, iso_mounted is false or absent, snapshot_count is 0 or
\* absent, and balancer_mode is not the string 'off' (an absent balancer_mode
\* is not 'off')
C26_CanMigrateIff ==
    calc.op = "can_vm_migrate" /\ calc.done =>
        LET in == calc.input
        IN  calc.output <=>
                /\ in.state # <<>> /\ lower(in.state[1]) = "active"
                /\ in.iso_mounted = <<>> \/ in.iso_mounted[1] = FALSE
                /\ in.snapshot_count = <<>> \/ in.snapshot_count[1] = 0
                /\ in.balancer_mode # <<"off">>

\* the VMs of the list that are on the source node, migratable, without a
\* successful migration within the last hour and without a failed migration
\* within the retention window of the blacklist (positions in cluster_vms)
EligibleVMs ==
    {i \in 1..Len(cluster_vms) :
        LET v == cluster_vms[i]
        IN  /\ v.node_id = source_node.id
            /\ v.can_migrate
            /\ DictGet(migration_history, v.id, DatetimeMin) < now - HistoryRetention
            /\ DictGet(last_failure, v.id, DatetimeMin) < now - BlacklistRetention}

\* cpu_cores + memory_mb / 1024, in units of 1/1024
SizeMetric(v) == v.cpu_cores * 1024 + v.memory_mb

\* C29: the selection for a source returns none exactly when no VM of the
\* source is migratable, not migrated within the last hour and not
\* blacklisted within the retention window; otherwise it returns the VM of
\* that set with the least cpu_cores + memory_mb/1024, the earliest of the
\* list among equals, and the VM returned is on the source node.
C29_SelectionContract ==
    pc = "sources" /\ ~LoopOver =>
        /\ vm_to_migrate = <<>> <=> EligibleVMs = {}
        /\ vm_to_migrate # <<>> =>
              /\ vm_to_migrate[1].node_id = source_node.id
              /\ \E i \in EligibleVMs :
                    /\ cluster_vms[i] = vm_to_migrate[1]
                    /\ \A j \in EligibleVMs :
                          \/ SizeMetric(cluster_vms[i]) < SizeMetric(cluster_vms[j])
                          \/ SizeMetric(cluster_vms[i]) = SizeMetric(cluster_vms[j]) /\ i <= j

\* the leading dotted integer tuple of a version string, (0,) without one
LeadingTuple(version_str) ==
    LET k == NumericPartLen(version_str)
    IN  IF k > 0 THEN SplitInts(SubSeq(version_str, 1, k), 1, 0) ELSE <<0>>

\* the verdict on a pair of versions: compatible when either is empty, and
\* otherwise when the target's leading tuple is >= the source's
QemuCompatible(source_version, target_version) ==
    \/ source_version = <<>> \/ target_version = <<>>
    \/ TupleGE(LeadingTuple(target_version), LeadingTuple(source_version))

\* C28: for every pair of version strings, VMManagerAPI.compare_qemu_versions
\* and ResourceEstimator._check_qemu_compatibility both return the verdict
\* obtained from the leading dotted integer tuples, any non-numeric suffix
\* ignored: true if either version is empty, else target tuple >= source
\* tuple.
C28_QemuVerdict ==
    calc.op = "qemu" /\ calc.done =>
        /\ calc.output.api = QemuCompatible(calc.input.source, calc.input.target)
        /\ calc.output.estimator = QemuCompatible(calc.input.source, calc.input.target)

\* the positions of the node list that the calls were made on
NodePositions == 1..Len(calc.input.nodes)

\* the node at position i is not excluded as a source by name or by id, is
\* not in maintenance, and its CPU ratio is above cpu_overload_threshold or
\* its memory use above memory_overload_threshold percent
OverThreshold(i) ==
    LET n == calc.input.nodes[i]
    IN  /\ n.name \notin calc.input.excl_src
        /\ n.id \notin calc.input.excl_src
        /\ ~n.is_maintenance
        /\ \/ n.cpu_total > 0 /\ n.cpu_used > cpu_overload_threshold * n.cpu_total
           \/ n.memory_total_mb > 0
                /\ n.memory_used_mb * 100 > memory_overload_threshold * n.memory_total_mb

\* C30: the list of overloaded sources holds, once each, exactly the nodes
\* that are not excluded as source by name or id, are not in maintenance and
\* are strictly above the CPU or the memory overload threshold.
C30_OverloadedExactly ==
    calc.op = "choices" /\ calc.output # <<>> =>
        LET sources == calc.output[1].sources
        IN  /\ SeqRange(sources) = {i \in NodePositions : OverThreshold(i)}
            /\ Cardinality(SeqRange(sources)) = Len(sources)

\* C30: the list was built from a node exactly at both thresholds (ratio 7,
\* memory 70 %), left out, and a node above the CPU threshold, listed
C30_Witness ==
    /\ calc.op = "choices" /\ calc.output # <<>>
    /\ LET n == calc.input.nodes[1]
       IN  /\ n.cpu_used = cpu_overload_threshold * n.cpu_total
           /\ n.memory_used_mb * 100 = memory_overload_threshold * n.memory_total_mb
    /\ calc.input.excl_src = {}
    /\ calc.output[1].sources = <<2>>

\* the sort keys of the node at position i, in common denominators:
\* max(cpu ratio, memory %) for a source, (cpu ratio, memory %) for a target
SourceLoad(i) ==
    LET n == calc.input.nodes[i]
    IN  FracMax(Frac(n.cpu_used, n.cpu_total), Frac(n.memory_used_mb * 100, n.memory_total_mb))

TargetLoad(i) ==
    LET n == calc.input.nodes[i]
    IN  <<Frac(n.cpu_used, n.cpu_total), Frac(n.memory_used_mb * 100, n.memory_total_mb)>>

\* position i of a list comes before position j: strictly better key, or the
\* same key and earlier in the input
InputOrderOnTies(less, same, i, j) == less \/ (same /\ i < j)

\* C24: two calls on the same node list, VM list, exclusions, history and
\* clock give the same sources, the same targets and the same (vm, target)
\* for every source; the sources are in descending order of load, the
\* targets in ascending order of (cpu ratio, memory %), the VM chosen is the
\* smallest that may move, its target the first of the targets that accepts
\* it, and equal keys are in the order of the input.
C24_Deterministic ==
    calc.op = "choices" /\ calc.done =>
        LET first == calc.output[1]
            vms == VMList
        IN  /\ calc.output[2] = first
            /\ \A a, b \in 1..Len(first.sources) :
                  a < b => InputOrderOnTies(
                               FracLT(SourceLoad(first.sources[b]), SourceLoad(first.sources[a])),
                               FracEQ(SourceLoad(first.sources[b]), SourceLoad(first.sources[a])),
                               first.sources[a], first.sources[b])
            /\ \A a, b \in 1..Len(first.targets) :
                  a < b => InputOrderOnTies(
                               KeyLT(TargetLoad(first.targets[a]), TargetLoad(first.targets[b])),
                               ~KeyLT(TargetLoad(first.targets[b]), TargetLoad(first.targets[a])),
                               first.targets[a], first.targets[b])
            /\ \A k \in 1..Len(first.pairs) :
                  first.pairs[k].vm # <<>> =>
                      \E i \in 1..Len(vms) :
                          /\ vms[i] = first.pairs[k].vm[1]
                          /\ vms[i].node_id = calc.input.nodes[first.sources[k]].id
                          /\ \A j \in 1..Len(vms) :
                                (/\ vms[j].node_id = vms[i].node_id
                                 /\ vms[j].can_migrate
                                 /\ DictGet(calc.input.history, vms[j].id, DatetimeMin)
                                        < calc.input.now - HistoryRetention)
                                => \/ i = j
                                   \/ InputOrderOnTies(SizeMetric(vms[i]) < SizeMetric(vms[j]),
                                                       SizeMetric(vms[i]) = SizeMetric(vms[j]),
                                                       i, j)
            /\ \A k \in 1..Len(first.pairs) :
                  first.pairs[k].vm # <<>> =>
                      LET accepts(a) ==
                              can_node_accept_vm(calc.input.nodes[first.targets[a]],
                                                 first.pairs[k].vm[1], calc.input.nodes)
                      IN  \/ /\ first.pairs[k].target = 0
                             /\ \A a \in 1..Len(first.targets) : ~accepts(a)
                          \/ \E a \in 1..Len(first.targets) :
                                /\ first.pairs[k].target = first.targets[a]
                                /\ accepts(a)
                                /\ \A b \in 1..(a - 1) : ~accepts(b)

\* C24: both calls have returned two sources of equal load and two targets of
\* equal load, and a VM was chosen among two of equal size
C24_Witness ==
    /\ calc.op = "choices" /\ calc.done
    /\ LET first == calc.output[1]
       IN  /\ Len(first.sources) = 2
           /\ FracEQ(SourceLoad(first.sources[1]), SourceLoad(first.sources[2]))
           /\ Len(first.targets) = 2
           /\ TargetLoad(first.targets[1]) = TargetLoad(first.targets[2])
           /\ first.pairs[1].vm # <<>> /\ first.pairs[1].vm[1].id = "101"
           /\ first.pairs[2].vm # <<>> /\ first.pairs[2].vm[1].id = "103"
           /\ first.pairs[1].target = 3

\* C27: the estimator accepts target t for VM v from source s exactly when
\* (t.cpu_used + v.cpu_cores) / t.cpu_total < cpu_overload_threshold and
\* t.memory_usage_percent + 100 * v.memory_mb / t.memory_total_mb <
\* memory_overload_threshold (the overload thresholds, strictly: an estimate
\* equal to a threshold is rejected) and the QEMU versions are compatible.
C27_EstimatorContract ==
    calc.op = "can_node_accept_vm" /\ calc.done =>
        LET s == calc.input.nodes[1]
            t == calc.input.nodes[2]
            v == calc.input.vm
        IN  calc.output <=>
                /\ t.cpu_used + v.cpu_cores < cpu_overload_threshold * t.cpu_total
                /\ (t.memory_used_mb + v.memory_mb) * 100
                      < memory_overload_threshold * t.memory_total_mb
                /\ QemuCompatible(s.qemu_version, t.qemu_version)

\* the node at position i is not excluded as a target by name or by id, may
\* take VMs (not in maintenance, VM creation allowed, no VM limit or fewer
\* VMs than the limit), and is strictly below both target thresholds
UnderTarget(i) ==
    LET n == calc.input.nodes[i]
    IN  /\ n.name \notin calc.input.excl_tgt
        /\ n.id \notin calc.input.excl_tgt
        /\ ~n.is_maintenance
        /\ n.vm_creation_allowed
        /\ (n.vm_limit <= 0 \/ n.vm_count < n.vm_limit)
        /\ (n.cpu_total = 0 \/ n.cpu_used < cpu_target_threshold * n.cpu_total)
        /\ (n.memory_total_mb = 0
              \/ n.memory_used_mb * 100 < memory_target_threshold * n.memory_total_mb)

\* C31: the list of underloaded targets holds, once each, exactly the nodes
\* that are not excluded as target by name or id, satisfy can_accept_vms and
\* have a CPU ratio below cpu_target_threshold and a memory use below
\* memory_target_threshold percent.
C31_UnderloadedExactly ==
    calc.op = "choices" /\ calc.output # <<>> =>
        LET targets == calc.output[1].targets
        IN  /\ SeqRange(targets) = {i \in NodePositions : UnderTarget(i)}
            /\ Cardinality(SeqRange(targets)) = Len(targets)

\* C31: the list was built from a node excluded by its id, a node in
\* maintenance, and a node above the memory overload threshold but below
\* the memory target threshold, which is the only target
C31_Witness ==
    /\ calc.op = "choices" /\ calc.output # <<>>
    /\ calc.input.excl_tgt = {"4"}
    /\ calc.input.nodes[3].is_maintenance
    /\ calc.input.nodes[4].cpu_used = 0 /\ calc.input.nodes[4].memory_used_mb = 0
    /\ calc.input.nodes[4].vm_creation_allowed
    /\ calc.input.nodes[1].memory_used_mb = 2900
    /\ calc.output[1].targets = <<1>>

\* cpu_allocation_ratio + memory_usage_percent / 100 of node n, as a fraction
CompositeLoad(n) ==
    LET c == cpu_allocation_ratio(n)
        m == IF n.memory_total_mb > 0 THEN Frac(n.memory_used_mb, n.memory_total_mb)
             ELSE Frac(0, 1)
    IN  Frac(c[1] * m[2] + m[1] * c[2], c[2] * m[2])

\* C32: the sources of a pass are visited in descending order of
\* cpu_allocation_ratio + memory_usage_percent / 100: the source the loop is
\* at, and every source it has attempted, has no source of strictly higher
\* composite load after it in the list.
C32_CompositeOrder ==
    pc \in {"sources", "migrating"} =>
        \A a, b \in 1..Len(overloaded_nodes) :
            a < b /\ a <= src_pos =>
                ~FracLT(CompositeLoad(nodes[overloaded_nodes[a]]),
                        CompositeLoad(nodes[overloaded_nodes[b]]))

\* the estimator's verdict on the node at position i for VM vm
Accepts(i, vm) == can_node_accept_vm(calc.input.nodes[i], vm, calc.input.nodes)

\* C33: the targets are in ascending order of (cpu_allocation_ratio,
\* memory_usage_percent), and the target chosen for a VM is the first node
\* of that order that the estimator accepts: an accepted target with no
\* accepted target of a smaller key, nor of the same key earlier in the
\* input; none is chosen exactly when the estimator accepts no target.
C33_FirstAcceptingTarget ==
    calc.op = "choices" /\ calc.output # <<>> =>
        LET result == calc.output[1]
            targets == result.targets
            candidates(vm) == {i \in SeqRange(targets) : Accepts(i, vm)}
        IN  /\ \A a \in 1..(Len(targets) - 1) :
                  ~KeyLT(TargetLoad(targets[a + 1]), TargetLoad(targets[a]))
            /\ \A k \in 1..Len(result.pairs) :
                  result.pairs[k].vm # <<>> =>
                      LET vm == result.pairs[k].vm[1]
                          chosen == result.pairs[k].target
                      IN  /\ chosen = 0 <=> candidates(vm) = {}
                          /\ chosen # 0 =>
                                /\ chosen \in candidates(vm)
                                /\ \A j \in candidates(vm) \ {chosen} :
                                      \/ KeyLT(TargetLoad(chosen), TargetLoad(j))
                                      \/ ~KeyLT(TargetLoad(j), TargetLoad(chosen)) /\ chosen < j

\* C33: the first target of the order (no CPU in use, 60 % of memory) is
\* rejected for VM 101, the second is chosen for it; no target accepts
\* VM 103 (1024 MB)
C33_Witness ==
    /\ calc.op = "choices" /\ calc.output # <<>>
    /\ LET result == calc.output[1]
       IN  /\ result.targets = <<3, 4>>
           /\ Len(result.pairs) = 2
           /\ result.pairs[1].vm # <<>> /\ result.pairs[1].vm[1].id = "101"
           /\ ~Accepts(3, result.pairs[1].vm[1])
           /\ result.pairs[1].target = 4
           /\ result.pairs[2].vm # <<>> /\ result.pairs[2].vm[1].id = "103"
           /\ result.pairs[2].target = 0

\* the candidates that remain after the attempts made so far in the pass:
\* the VMs that may move, have not moved lately and are on a source the
\* loop has still to visit
RemainingCandidates ==
    IF LoopOver THEN {}
    ELSE {cluster_vms[i] : i \in {j \in 1..Len(cluster_vms) :
              /\ cluster_vms[j].can_migrate
              /\ DictGet(migration_history, cluster_vms[j].id, DatetimeMin)
                     < now - HistoryRetention
              /\ \E k \in src_pos..Len(overloaded_nodes) :
                    cluster_vms[j].node_id = nodes[overloaded_nodes[k]].id}}

\* the target of the last attempt of the pass, carrying the cores and the
\* memory of the VMs that the pass has placed on it
ProjectedTarget ==
    LET tgt == attempts[Len(attempts)].target
        placed == {k \in Counted : attempts[k].target = tgt}
        cores[k \in 0..Len(attempts)] ==
            IF k = 0 THEN 0
            ELSE cores[k - 1] + (IF k \in placed THEN attempts[k].vm.cpu_cores ELSE 0)
        memory[k \in 0..Len(attempts)] ==
            IF k = 0 THEN 0
            ELSE memory[k - 1] + (IF k \in placed THEN attempts[k].vm.memory_mb ELSE 0)
    IN  [nodes[tgt] EXCEPT !.cpu_used = @ + cores[Len(attempts)],
                           !.memory_used_mb = @ + memory[Len(attempts)]]

\* C34: when a real migration has succeeded and the target, as fetched,
\* accepted one of the candidates that remain, the target is out of the
\* target list exactly when the estimator, on the target's projected state,
\* no longer accepts any of them; and the target of a migration under way is
\* a member of the target list, so that a removed target receives no further
\* migration.
C34_TargetRemoval ==
    /\ (/\ pc = "sources" /\ attempts # <<>>
        /\ attempts[Len(attempts)].outcome \in SuccessOutcomes
        /\ \E v \in RemainingCandidates :
               can_node_accept_vm(nodes[attempts[Len(attempts)].target], v, nodes))
       => LET tgt == attempts[Len(attempts)].target
          IN  tgt \notin SeqRange(underloaded_nodes)
                  <=> \A v \in RemainingCandidates :
                         ~can_node_accept_vm(ProjectedTarget, v, nodes)
    /\ pc = "migrating" => in_flight[2] \in SeqRange(underloaded_nodes)

\* the nodes of the pass as get_cluster_nodes returned them: the counters
\* are the platform's, with the VMs that the pass has moved back on their
\* sources
FetchedNodes ==
    LET moved == {i \in DOMAIN attempts : attempts[i].outcome \in SuccessOutcomes}
        node_at_start(v) ==
            IF \E i \in moved : attempts[i].vm.id = v
            THEN (CHOOSE a \in {attempts[i] : i \in moved} : a.vm.id = v).vm.node_id
            ELSE vm_node[v]
        total[k \in 0..Len(VMOrder)] ==
            [id \in NodeIds |->
                IF k = 0
                THEN [cpu |-> node_static[id].base_cpu, mem |-> node_static[id].base_mem,
                      count |-> node_static[id].base_count]
                ELSE IF node_at_start(VMOrder[k]) # id THEN total[k - 1][id]
                ELSE [cpu |-> total[k - 1][id].cpu + vm_static[VMOrder[k]].cpu_cores,
                      mem |-> total[k - 1][id].mem + vm_static[VMOrder[k]].memory_mb,
                      count |-> total[k - 1][id].count + 1]]
    IN  [i \in DOMAIN nodes |->
            LET at_start == total[Len(VMOrder)][nodes[i].id]
            IN  [nodes[i] EXCEPT !.vm_count = at_start.count, !.cpu_used = at_start.cpu,
                                 !.memory_used_mb = at_start.mem]]

\* the history as it was when the pass began: the entries that the pass has
\* written since are those of the VMs it has moved
StartHistory ==
    LET moved == {attempts[i].vm.id : i \in {j \in DOMAIN attempts : attempts[j].mode = "real"}}
    IN  [id \in DOMAIN migration_history \ moved |-> migration_history[id]]

RECURSIVE DryRunPass(_, _, _)
\* the decisions of a dry-run pass over the sources k.. of the list, from
\* the node snapshots ns and the decisions made before k: for each source
\* in turn, the smallest VM that may move and the first target of the list
\* as found at the start that accepts it, then the projection
DryRunPass(k, ns, decisions) ==
    IF k > Len(overloaded_nodes) \/ Len(decisions) >= max_migrations_per_cycle
    THEN decisions
    ELSE LET vm == select_vm_for_migration(cluster_vms, ns[overloaded_nodes[k]],
                                           StartHistory, now)
             tgt == IF vm = <<>> THEN 0
                    ELSE find_target_node(vm[1],
                                          find_underloaded_nodes(FetchedNodes,
                                                                 excluded_target_nodes),
                                          ns, 1)
         IN  IF tgt = -1 THEN decisions
             ELSE IF tgt = 0 THEN DryRunPass(k + 1, ns, decisions)
             ELSE LET projected == project(ns, overloaded_nodes[k], tgt)
                  IN  DryRunPass(k + 1, projected,
                                 Append(decisions,
                                        [at |-> k, vm |-> vm[1],
                                         source |-> overloaded_nodes[k], target |-> tgt,
                                         nodes |-> projected]))

C36_NoSelfMigration ==
    /\ \A i \in DOMAIN attempts : attempts[i].source # attempts[i].target
    /\ pc = "migrating" => in_flight[2] # overloaded_nodes[src_pos]

\* C36: a VM was moved from a node that is in the list of sources and in the
\* list of targets of the pass
C36_Witness ==
    /\ attempts # <<>>
    /\ attempts[1].source \in SeqRange(overloaded_nodes) \cap SeqRange(underloaded_nodes)
    /\ attempts[1].outcome \in SuccessOutcomes \cup {"simulated"}

\* the sum of vm_count over the node snapshots ns
VmCountSum(ns) ==
    LET sum[k \in 0..Len(ns)] == IF k = 0 THEN 0 ELSE sum[k - 1] + ns[k].vm_count
    IN  sum[Len(ns)]

\* C37: throughout a pass the sum of vm_count over the node snapshots of the
\* cluster is the sum that was fetched, and every snapshot is the fetched
\* one with vm_count lowered by the counted (simulated or successful)
\* migrations that left the node and raised by those that reached it: a
\* failed or timed-out migration has changed no counter of any node.
C37_CountConservation ==
    pc \in {"sources", "migrating"} =>
        /\ VmCountSum(nodes) = VmCountSum(FetchedNodes)
        /\ \A i \in DOMAIN nodes :
              nodes[i] = [FetchedNodes[i] EXCEPT !.vm_count =
                             @ - Cardinality({k \in Counted : attempts[k].source = i})
                               + Cardinality({k \in Counted : attempts[k].target = i})]

\* C37: a pass has projected a successful migration after the migration of
\* its first source had failed
C37_Witness ==
    /\ pc = "sources"
    /\ Len(attempts) = 2
    /\ attempts[1].outcome \in FailureOutcomes
    /\ attempts[2].outcome \in SuccessOutcomes

\* C38: for every target of the list, also one with cpu_total = 0 or
\* memory_total_mb = 0, the estimator returns a verdict: when the loop is at
\* a source with a VM to move, the search for a target ends with a node or
\* with none and not with an error, and so the pass goes on to the remaining
\* sources.
C38_EstimatorTotal ==
    pc = "sources" /\ ~LoopOver /\ vm_to_migrate # <<>> =>
        target_index >= 0

\* C39: every cycle terminates: a cycle that has begun to balance its
\* clusters reaches its completion step, after which the worker sleeps; a
\* migration under way ends, by success or by failure (error or timeout),
\* and the loop goes on; and no source of a pass is the source of two
\* attempts.
C39_CycleTerminates ==
    /\ (pc \in {"clusters", "sources", "migrating"}) ~> (pc = "sleeping")
    /\ (pc = "migrating") ~> (pc = "sources")
    /\ [](\A i, j \in DOMAIN attempts : i < j => attempts[i].source # attempts[j].source)

\* C39: a cycle has completed after a pass in which the migration of one
\* source timed out and the migration of the next source succeeded
C39_Witness ==
    /\ pc = "sleeping"
    /\ cycle = 1
    /\ \E v \in DOMAIN last_failure : \E w \in DOMAIN last_success : v # w

=============================================================================
